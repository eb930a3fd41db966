--------------------------- MODULE EventHubProofs ---------------------------
(***************************************************************************)
(* Why a client sees the events of one publisher in their order, each at   *)
(* most once, and only events the history holds or whose append failed.    *)
(*                                                                         *)
(* A publisher makes all sends of an event before it begins the next, so   *)
(* what it has still to send is its newest event (Newest), and no channel  *)
(* holds that event before the send (Behind).                              *)
(***************************************************************************)
EXTENDS EventHub, TLAPS

(* What the handler of s has written, and will write if it goes on.        *)
Seen(s) == stream[s] \o buffer[s]

(* The sends p has still to make are those of its newest event.            *)
Newest ==
  \A p \in Publishers :
    /\ p \in copying => published[p] > 0 /\ sending[p] = {}
    /\ \A x \in sending[p] : x[2] = Current(p)

Behind ==
  \A s \in Subscribers : \A i \in 1..Len(Seen(s)) :
    LET e == Seen(s)[i] IN
    /\ e[2] <= published[e[1]]
    /\ e[2] = published[e[1]] => e[1] \notin copying /\ <<s, e>> \notin sending[e[1]]

Stored(e) == e \in lost \/ \E j \in 1..Len(history) : history[j] = e

(* Nothing is published before its append was tried.                       *)
Tried == \A e \in Event : e[2] <= published[e[1]] => Stored(e)

IInv == TypeOK /\ Newest /\ Behind /\ Tried /\ StreamInOrder

-----------------------------------------------------------------------------
(* Sequences.                                                              *)

LEMMA Moved ==
  ASSUME NEW S, NEW a \in Seq(S), NEW b \in Seq(S), b # <<>>
  PROVE  /\ Append(a, Head(b)) \o Tail(b) = a \o b
         /\ Append(a, Head(b)) \in Seq(S) /\ Tail(b) \in Seq(S) /\ Len(Tail(b)) <= Len(b)
  OBVIOUS

LEMMA Extended ==
  ASSUME NEW S, NEW a \in Seq(S), NEW b \in Seq(S), NEW e \in S
  PROVE  a \o Append(b, e) = Append(a \o b, e) /\ a \o b \in Seq(S)
  OBVIOUS

LEMMA Appended ==
  ASSUME NEW S, NEW a \in Seq(S), NEW e \in S
  PROVE  /\ Append(a, e) \in Seq(S) /\ Len(a) \in Nat /\ Len(Append(a, e)) = Len(a) + 1
         /\ Append(a, e)[Len(a) + 1] = e
         /\ \A i \in 1..Len(a) : i \in 1..Len(Append(a, e)) /\ Append(a, e)[i] = a[i]
  OBVIOUS

LEMMA Shown ==
  ASSUME TypeOK, NEW s \in Subscribers
  PROVE  /\ Seen(s) \in Seq(Event)
         /\ \A i \in 1..Len(stream[s]) : i \in 1..Len(Seen(s)) /\ Seen(s)[i] = stream[s][i]
  BY DEF TypeOK, Seen

-----------------------------------------------------------------------------
(* The types.                                                              *)

LEMMA Numbers ==
  ASSUME TypeOK, NEW p \in Publishers, published[p] < MaxEvents
  PROVE  published[p] + 1 \in 0..MaxEvents /\ <<p, published[p] + 1>> \in Event
  BY HubConstants DEF TypeOK, Event

LEMMA TypesKept ==
  ASSUME TypeOK, Newest, [Next]_vars
  PROVE  TypeOK'
  <1>0. /\ published \in [Publishers -> 0..MaxEvents]
        /\ sending \in [Publishers -> SUBSET (Subscribers \X Event)]
        /\ buffer \in [Subscribers -> Seq(Event)]
        /\ \A s \in Subscribers : Len(buffer[s]) <= Capacity
        /\ stream \in [Subscribers -> Seq(Event)]
    BY DEF TypeOK
  <1>1. ASSUME NEW p \in Publishers, AppendEvent(p) PROVE TypeOK'
    <2>1. published' \in [Publishers -> 0..MaxEvents]
      <3>1. published' = [published EXCEPT ![p] = published[p] + 1] /\ published[p] + 1 \in 0..MaxEvents
        BY <1>1, Numbers DEF AppendEvent
      <3> QED
        BY <1>0, <3>1
    <2>2. history' \in Seq(Event) /\ lost' \subseteq Event
      <3> DEFINE e == <<p, published[p] + 1>>
      <3>1. e \in Event
        BY <1>1, Numbers DEF AppendEvent
      <3>2. \/ history' = Append(history, e) /\ lost' = lost
            \/ history' = history /\ lost' = lost \cup {e}
        BY <1>1 DEF AppendEvent
      <3>3. history \in Seq(Event) /\ lost \subseteq Event
        BY DEF TypeOK
      <3> HIDE DEF e
      <3> QED
        BY <3>1, <3>2, <3>3
    <2> QED
      BY <1>1, <2>1, <2>2 DEF AppendEvent, TypeOK
  <1>2. ASSUME NEW p \in Publishers, Publish(p) PROVE TypeOK'
    <2>1. Current(p) \in Event
      BY <1>0, <1>2, HubConstants DEF Publish, Newest, Current, Event
    <2>2. sending' \in [Publishers -> SUBSET (Subscribers \X Event)]
      BY <1>2, <2>1 DEF Publish, TypeOK
    <2> QED
      BY <1>2, <2>2 DEF Publish, TypeOK
  <1>3. ASSUME NEW p \in Publishers, NEW s \in Subscribers, NEW e \in Event, Send(p, s, e) PROVE TypeOK'
    <2>1. sending' \in [Publishers -> SUBSET (Subscribers \X Event)]
      BY <1>0, <1>3 DEF Send
    <2>2. CASE buffer' = buffer
      BY <1>3, <2>1, <2>2 DEF Send, TypeOK
    <2>3. CASE Len(buffer[s]) < Capacity /\ buffer' = [buffer EXCEPT ![s] = Append(buffer[s], e)]
      <3>1. /\ Append(buffer[s], e) \in Seq(Event)
            /\ Len(buffer[s]) \in Nat /\ Len(Append(buffer[s], e)) = Len(buffer[s]) + 1
        BY <1>0
      <3>2. buffer' \in [Subscribers -> Seq(Event)]
        BY <1>0, <2>3, <3>1
      <3>3. \A t \in Subscribers : Len(buffer'[t]) <= Capacity
        BY <1>0, <2>3, <3>1, HubConstants
      <3> QED
        BY <1>3, <2>1, <3>2, <3>3 DEF Send, TypeOK
    <2> QED
      BY <1>3, <2>2, <2>3 DEF Send
  <1>4. ASSUME NEW s \in Subscribers, Subscribe(s) \/ Unsubscribe(s) PROVE TypeOK'
    BY <1>4 DEF Subscribe, Unsubscribe, TypeOK
  <1>5. ASSUME NEW s \in Subscribers, Receive(s) PROVE TypeOK'
    <2>1. /\ Append(stream[s], Head(buffer[s])) \in Seq(Event)
          /\ Tail(buffer[s]) \in Seq(Event) /\ Len(Tail(buffer[s])) <= Len(buffer[s])
      BY <1>0, <1>5, Moved DEF Receive
    <2>2. Len(Tail(buffer[s])) <= Capacity
      BY <1>0, <2>1, HubConstants
    <2>3. buffer' \in [Subscribers -> Seq(Event)] /\ \A t \in Subscribers : Len(buffer'[t]) <= Capacity
      BY <1>0, <1>5, <2>1, <2>2 DEF Receive
    <2>4. stream' \in [Subscribers -> Seq(Event)]
      BY <1>0, <1>5, <2>1 DEF Receive
    <2> QED
      BY <1>5, <2>3, <2>4 DEF Receive, TypeOK
  <1>6. CASE UNCHANGED vars
    BY <1>6 DEF vars, TypeOK
  <1> QED
    BY <1>1, <1>2, <1>3, <1>4, <1>5, <1>6 DEF Next

-----------------------------------------------------------------------------
(* What a step does to the events on their way.                            *)

LEMMA NewestKept ==
  ASSUME TypeOK, Newest, [Next]_vars
  PROVE  Newest'
  <1>0. /\ published \in [Publishers -> 0..MaxEvents]
        /\ sending \in [Publishers -> SUBSET (Subscribers \X Event)]
    BY DEF TypeOK
  <1> SUFFICES ASSUME NEW q \in Publishers
               PROVE  /\ q \in copying' => published'[q] > 0 /\ sending'[q] = {}
                      /\ \A x \in sending'[q] : x[2] = <<q, published'[q]>>
    BY DEF Newest, Current
  <1>a. /\ q \in copying => published[q] > 0 /\ sending[q] = {}
        /\ \A x \in sending[q] : x[2] = <<q, published[q]>>
    BY DEF Newest, Current
  <1>1. ASSUME NEW p \in Publishers, AppendEvent(p)
        PROVE  /\ q \in copying' => published'[q] > 0 /\ sending'[q] = {}
               /\ \A x \in sending'[q] : x[2] = <<q, published'[q]>>
    BY <1>0, <1>1, <1>a, HubConstants DEF AppendEvent
  <1>2. ASSUME NEW p \in Publishers, Publish(p)
        PROVE  /\ q \in copying' => published'[q] > 0 /\ sending'[q] = {}
               /\ \A x \in sending'[q] : x[2] = <<q, published'[q]>>
    <2>1. sending'[q] = IF q = p THEN {<<s, <<p, published[p]>>>> : s \in group} ELSE sending[q]
      BY <1>0, <1>2, <1>a DEF Publish, Current
    <2>2. published' = published /\ copying' = copying \ {p}
      BY <1>2 DEF Publish
    <2> QED
      BY <1>a, <2>1, <2>2
  <1>3. ASSUME NEW p \in Publishers, NEW s \in Subscribers, NEW e \in Event, Send(p, s, e)
        PROVE  /\ q \in copying' => published'[q] > 0 /\ sending'[q] = {}
               /\ \A x \in sending'[q] : x[2] = <<q, published'[q]>>
    BY <1>0, <1>3, <1>a DEF Send
  <1>4. ASSUME NEW s \in Subscribers, Subscribe(s) \/ Unsubscribe(s) \/ Receive(s)
        PROVE  UNCHANGED <<published, copying, sending>>
    BY <1>4 DEF Subscribe, Unsubscribe, Receive
  <1>5. CASE UNCHANGED vars
    BY <1>5, <1>a DEF vars
  <1> QED
    BY <1>1, <1>2, <1>3, <1>4, <1>5, <1>a DEF Next

LEMMA TriedKept ==
  ASSUME TypeOK, Tried, [Next]_vars
  PROVE  Tried'
  <1>1. ASSUME NEW p \in Publishers, AppendEvent(p) PROVE Tried'
    <2>0. PICK n \in Event : n = <<p, published[p] + 1>>
      BY <1>1, Numbers DEF AppendEvent
    <2> SUFFICES ASSUME NEW e \in Event, e[2] <= published'[e[1]] PROVE Stored(e)'
      BY DEF Tried, Stored
    <2>1. published \in [Publishers -> Nat] /\ history \in Seq(Event)
      BY <1>1, Numbers, HubConstants DEF AppendEvent, TypeOK
    <2>2. \/ history' = Append(history, n) /\ lost' = lost
          \/ history' = history /\ lost' = lost \cup {n}
      BY <1>1, <2>0 DEF AppendEvent
    <2>3. Stored(n)'
      <3>1. CASE history' = Append(history, n)
        <4>1. Len(history) + 1 \in 1..Len(history') /\ history'[Len(history) + 1] = n
          BY <2>1, <3>1, Appended
        <4> QED
          BY <4>1 DEF Stored
      <3> QED
        BY <2>2, <3>1 DEF Stored
    <2>4. CASE e[2] <= published[e[1]]
      <3>1. Stored(e)
        BY <2>4 DEF Tried
      <3>2. ASSUME NEW j \in 1..Len(history) PROVE j \in 1..Len(history') /\ history'[j] = history[j]
        BY <2>1, <2>2, Appended
      <3> QED
        BY <2>2, <3>1, <3>2 DEF Stored
    <2>5. CASE ~(e[2] <= published[e[1]])
      <3>1. e = <<e[1], e[2]>> /\ e[1] \in Publishers /\ e[2] \in Nat
        BY DEF Event
      <3>2. e[1] = p /\ e[2] = published[p] + 1
        <4>1. published' = [published EXCEPT ![p] = published[p] + 1] /\ published[p] \in Nat
          BY <1>1, <2>1 DEF AppendEvent
        <4>2. published'[e[1]] = IF e[1] = p THEN published[p] + 1 ELSE published[e[1]]
          BY <2>1, <3>1, <4>1
        <4> QED
          BY <2>5, <3>1, <4>1, <4>2
      <3> QED
        BY <2>0, <2>3, <3>1, <3>2
    <2> QED
      BY <2>4, <2>5
  <1>2. CASE UNCHANGED <<published, history, lost>>
    BY <1>2 DEF Tried, Stored
  <1>3. (\E p \in Publishers : AppendEvent(p)) \/ UNCHANGED <<published, history, lost>>
    BY DEF Next, Publish, Send, Subscribe, Unsubscribe, Receive, vars
  <1> QED
    BY <1>1, <1>2, <1>3

(* A step shows nothing new to s, or one send adds the newest event of a   *)
(* publisher.                                                              *)
LEMMA SeenMoves ==
  ASSUME TypeOK, Newest, [Next]_vars, NEW s \in Subscribers
  PROVE  \/ Seen(s)' = Seen(s)
         \/ \E p \in Publishers, e \in Event :
              /\ Send(p, s, e) /\ e = Current(p) /\ p \notin copying
              /\ Seen(s)' = Append(Seen(s), e)
  <1>0. buffer \in [Subscribers -> Seq(Event)] /\ stream \in [Subscribers -> Seq(Event)]
    BY DEF TypeOK
  <1>1. CASE UNCHANGED <<buffer, stream>>
    BY <1>1 DEF Seen
  <1>2. ASSUME NEW p \in Publishers, NEW t \in Subscribers, NEW e \in Event, Send(p, t, e), buffer' # buffer
        PROVE  \/ Seen(s)' = Seen(s)
               \/ /\ Send(p, s, e) /\ e = Current(p) /\ p \notin copying
                  /\ Seen(s)' = Append(Seen(s), e)
    <2>1. buffer' = [buffer EXCEPT ![t] = Append(buffer[t], e)] /\ stream' = stream /\ <<t, e>> \in sending[p]
      BY <1>2 DEF Send
    <2>2. CASE t # s
      BY <1>0, <2>1, <2>2 DEF Seen
    <2>3. CASE t = s
      <3>1. Seen(s)' = Append(Seen(s), e)
        BY <1>0, <2>1, <2>3, Extended DEF Seen
      <3>2. e = Current(p) /\ p \notin copying
        BY <2>1 DEF Newest
      <3> QED
        BY <1>2, <2>3, <3>1, <3>2
    <2> QED
      BY <2>2, <2>3
  <1>3. ASSUME NEW t \in Subscribers, Receive(t) PROVE Seen(s)' = Seen(s)
    <2>1. /\ buffer[t] # <<>>
          /\ stream' = [stream EXCEPT ![t] = Append(stream[t], Head(buffer[t]))]
          /\ buffer' = [buffer EXCEPT ![t] = Tail(buffer[t])]
      BY <1>3 DEF Receive
    <2>2. CASE t # s
      BY <1>0, <2>1, <2>2 DEF Seen
    <2>3. CASE t = s
      <3>1. Seen(s)' = Append(stream[s], Head(buffer[s])) \o Tail(buffer[s])
        BY <1>0, <2>1, <2>3 DEF Seen
      <3> QED
        BY <1>0, <2>1, <2>3, <3>1, Moved DEF Seen
    <2> QED
      BY <2>2, <2>3
  <1>4. \/ UNCHANGED <<buffer, stream>>
        \/ \E t \in Subscribers : Receive(t)
        \/ \E p \in Publishers, t \in Subscribers, e \in Event : Send(p, t, e) /\ buffer' # buffer
    BY DEF Next, AppendEvent, Publish, Send, Subscribe, Unsubscribe, vars
  <1> QED
    BY <1>1, <1>2, <1>3, <1>4

(* What was shown stays behind the publisher.                              *)
Past(s, e) ==
  /\ e[2] <= published[e[1]]
  /\ e[2] = published[e[1]] => e[1] \notin copying /\ <<s, e>> \notin sending[e[1]]

LEMMA PastKept ==
  ASSUME TypeOK, Newest, [Next]_vars, NEW s \in Subscribers, NEW e \in Event, Past(s, e)
  PROVE  Past(s, e)'
  <1>0. /\ published \in [Publishers -> Nat] /\ e[1] \in Publishers /\ e[2] \in Nat /\ e = <<e[1], e[2]>>
        /\ sending \in [Publishers -> SUBSET (Subscribers \X Event)]
    BY HubConstants DEF TypeOK, Event
  <1>1. ASSUME NEW p \in Publishers, AppendEvent(p) PROVE Past(s, e)'
    <2>1. published' = [published EXCEPT ![p] = published[p] + 1] /\ copying' = copying \cup {p} /\ sending' = sending
      BY <1>1 DEF AppendEvent
    <2>2. CASE e[1] = p
      <3>1. published'[e[1]] = published[e[1]] + 1
        BY <1>0, <2>1, <2>2
      <3>2. e[2] < published'[e[1]]
        BY <1>0, <3>1 DEF Past
      <3> QED
        BY <1>0, <3>1, <3>2 DEF Past
    <2>3. CASE e[1] # p
      BY <1>0, <2>1, <2>3 DEF Past
    <2> QED
      BY <2>2, <2>3
  <1>2. ASSUME NEW p \in Publishers, Publish(p) PROVE Past(s, e)'
    <2>1. published' = published /\ copying' = copying \ {p} /\ p \in copying
      BY <1>2 DEF Publish
    <2>2. e[1] # p => sending'[e[1]] = sending[e[1]]
      BY <1>0, <1>2 DEF Publish
    <2> QED
      BY <2>1, <2>2 DEF Past
  <1>3. ASSUME NEW p \in Publishers, NEW t \in Subscribers, NEW f \in Event, Send(p, t, f) PROVE Past(s, e)'
    <2>1. published' = published /\ copying' = copying /\ sending'[e[1]] \subseteq sending[e[1]]
      BY <1>0, <1>3 DEF Send
    <2> QED
      BY <2>1 DEF Past
  <1>4. CASE UNCHANGED <<published, copying, sending>>
    BY <1>4 DEF Past
  <1>5. ASSUME NEW t \in Subscribers, Subscribe(t) \/ Unsubscribe(t) \/ Receive(t)
        PROVE  UNCHANGED <<published, copying, sending>>
    BY <1>5 DEF Subscribe, Unsubscribe, Receive
  <1> QED
    BY <1>1, <1>2, <1>3, <1>4, <1>5 DEF Next, vars

LEMMA BehindKept ==
  ASSUME TypeOK, Newest, Behind, [Next]_vars
  PROVE  Behind'
  <1> SUFFICES ASSUME NEW s \in Subscribers, NEW i \in 1..Len(Seen(s)'), NEW e, e = Seen(s)'[i] PROVE Past(s, e)'
    BY DEF Behind, Past, Seen
  <1>1. Seen(s) \in Seq(Event)
    BY Shown
  <1>2. ASSUME NEW j \in 1..Len(Seen(s)) PROVE Seen(s)[j] \in Event /\ Past(s, Seen(s)[j])
    <2>1. Seen(s)[j] \in Event
      BY <1>1
    <2>2. Past(s, Seen(s)[j])
      BY DEF Behind, Past
    <2> QED
      BY <2>1, <2>2
  <1>3. CASE i \in 1..Len(Seen(s)) /\ e = Seen(s)[i]
    BY <1>2, <1>3, PastKept
  <1>4. ASSUME NEW p \in Publishers, NEW f \in Event, Send(p, s, f), f = Current(p), p \notin copying,
               Seen(s)' = Append(Seen(s), f)
        PROVE  Past(s, e)'
    <2>1. CASE i = Len(Seen(s)) + 1
      <3>1. e = f
        BY <1>1, <1>4, <2>1, Appended
      <3>2. published' = published /\ copying' = copying /\ sending' = [sending EXCEPT ![p] = sending[p] \ {<<s, f>>}]
        BY <1>4 DEF Send
      <3>3. f[1] = p /\ f[2] = published[p] /\ <<s, f>> \notin sending'[p] /\ published[p] \in Nat
        BY <1>4, <3>2, HubConstants DEF Current, TypeOK
      <3>4. e[1] = p /\ e[2] = published'[p] /\ published'[p] \in Nat /\ p \notin copying' /\ <<s, e>> \notin sending'[p]
        BY <1>4, <3>1, <3>2, <3>3
      <3>5. e[2] <= published'[p]
        BY <3>4
      <3> QED
        BY <3>4, <3>5, Zenon DEF Past
    <2>2. CASE i # Len(Seen(s)) + 1
      <3>1. i \in 1..Len(Seen(s)) /\ e = Seen(s)[i]
        BY <1>1, <1>4, <2>2, Appended
      <3> QED
        BY <1>3, <3>1
    <2> QED
      BY <2>1, <2>2
  <1>5. CASE Seen(s)' = Seen(s)
    BY <1>3, <1>5
  <1> QED
    BY <1>4, <1>5, SeenMoves

LEMMA OrderKept ==
  ASSUME TypeOK, Newest, Behind, StreamInOrder, [Next]_vars
  PROVE  StreamInOrder'
  <1> SUFFICES ASSUME NEW s \in Subscribers, NEW i \in 1..Len(Seen(s)'), NEW j \in 1..Len(Seen(s)'),
                      i < j, Seen(s)'[i][1] = Seen(s)'[j][1]
               PROVE  Seen(s)'[i][2] < Seen(s)'[j][2]
    BY DEF StreamInOrder, Seen
  <1>1. Seen(s) \in Seq(Event)
    BY Shown
  <1>2. ASSUME NEW k \in 1..Len(Seen(s)), NEW l \in 1..Len(Seen(s)), k < l, Seen(s)[k][1] = Seen(s)[l][1]
        PROVE  Seen(s)[k][2] < Seen(s)[l][2]
    BY <1>2 DEF StreamInOrder, Seen
  <1>3. CASE Seen(s)' = Seen(s)
    BY <1>2, <1>3
  <1>4. ASSUME NEW p \in Publishers, NEW f \in Event, Send(p, s, f), f = Current(p), p \notin copying,
               Seen(s)' = Append(Seen(s), f)
        PROVE  Seen(s)'[i][2] < Seen(s)'[j][2]
    <2>1. i \in 1..Len(Seen(s)) /\ Seen(s)'[i] = Seen(s)[i] /\ j \in 1..(Len(Seen(s)) + 1) /\ Len(Seen(s)) \in Nat
      BY <1>1, <1>4, Appended
    <2>2. CASE j # Len(Seen(s)) + 1
      <3>1. j \in 1..Len(Seen(s)) /\ Seen(s)'[j] = Seen(s)[j]
        BY <1>1, <1>4, <2>1, <2>2, Appended
      <3> QED
        BY <1>2, <2>1, <3>1
    <2>3. CASE j = Len(Seen(s)) + 1
      <3>1. PICK e \in Event : e = Seen(s)[i]
        BY <1>1, <2>1
      <3>2. Seen(s)'[j] = f /\ f[1] = p /\ f[2] = published[p] /\ published[p] \in Nat
        BY <1>1, <1>4, <2>3, Appended, HubConstants DEF Current, TypeOK
      <3>3. e[1] = p /\ e[2] \in Nat /\ e = <<e[1], e[2]>>
        BY <2>1, <3>1, <3>2 DEF Event
      <3>4. e[2] <= published[p] /\ (e[2] = published[p] => <<s, e>> \notin sending[p])
        BY <2>1, <3>1, <3>3 DEF Behind
      <3>5. <<s, f>> \in sending[p]
        BY <1>4 DEF Send
      <3>6. e[2] # published[p]
        BY <1>4, <3>3, <3>4, <3>5 DEF Current
      <3> QED
        BY <2>1, <3>1, <3>2, <3>3, <3>4, <3>6
    <2> QED
      BY <2>2, <2>3
  <1> QED
    BY <1>3, <1>4, SeenMoves

-----------------------------------------------------------------------------
(* The theorems.                                                           *)

LEMMA Start == Init => IInv
  <1> SUFFICES ASSUME Init PROVE IInv
    OBVIOUS
  <1>1. TypeOK
    <2>1. <<>> \in Seq(Event) /\ Len(<<>>) = 0 /\ 0 <= Capacity /\ 0 \in 0..MaxEvents
      BY HubConstants
    <2>2. /\ published \in [Publishers -> 0..MaxEvents]
          /\ sending \in [Publishers -> SUBSET (Subscribers \X Event)]
          /\ buffer \in [Subscribers -> Seq(Event)] /\ stream \in [Subscribers -> Seq(Event)]
      BY <2>1 DEF Init
    <2>3. \A s \in Subscribers : Len(buffer[s]) <= Capacity
      BY <2>1 DEF Init
    <2> QED
      BY <2>1, <2>2, <2>3 DEF Init, TypeOK
  <1>2. \A s \in Subscribers : Seen(s) = <<>> /\ Len(Seen(s)) = 0
    BY DEF Init, Seen
  <1>3. Newest /\ Behind
    BY <1>2 DEF Init, Newest, Behind
  <1>4. Tried
    BY DEF Init, Tried, Event
  <1>5. StreamInOrder
    <2> SUFFICES ASSUME NEW s \in Subscribers, NEW i \in 1..Len(Seen(s)) PROVE FALSE
      BY DEF StreamInOrder, Seen
    <2> QED
      BY <1>2
  <1> QED
    BY <1>1, <1>3, <1>4, <1>5 DEF IInv

LEMMA Invariance == Spec => []IInv
  <1>1. IInv /\ [Next]_vars => IInv'
    BY TypesKept, NewestKept, BehindKept, TriedKept, OrderKept DEF IInv
  <1> QED
    BY <1>1, Start, PTL DEF Spec

(* No channel holds more events than its buffer, and what is sent goes to  *)
(* subscribers whose channel exists.                                       *)
THEOREM HubTypes == Spec => []TypeOK
  <1>1. IInv => TypeOK
    BY DEF IInv
  <1> QED
    BY <1>1, Invariance, PTL

(* A client sees the events of one publisher in the order in which they    *)
(* were published, and each at most once, although Publish sends without   *)
(* the lock, drops what does not fit, and runs in several goroutines.      *)
THEOREM OrderPerPublisher == Spec => []StreamInOrder
  <1>1. IInv => StreamInOrder
    BY DEF IInv
  <1> QED
    BY <1>1, Invariance, PTL

(* A client was shown only events the history holds, or whose append       *)
(* failed: publishEvent appends before it publishes.                       *)
THEOREM ShownIsStored == Spec => []StreamInHistory
  <1>1. ASSUME IInv, NEW s \in Subscribers, NEW i \in 1..Len(stream[s]) PROVE Stored(stream[s][i])
    <2>1. PICK e \in Event : e = stream[s][i]
      BY <1>1 DEF IInv, TypeOK
    <2>2. e[2] <= published[e[1]]
      BY <1>1, <2>1, Shown DEF IInv, Behind
    <2> QED
      BY <1>1, <2>1, <2>2 DEF IInv, Tried
  <1>2. IInv => StreamInHistory
    BY <1>1 DEF StreamInHistory, Stored
  <1> QED
    BY <1>2, Invariance, PTL
=============================================================================
