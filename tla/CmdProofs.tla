----------------------------- MODULE CmdProofs -----------------------------
(***************************************************************************)
(* Proofs about Cmd: what becomes of a command that was pressed, for any   *)
(* pressers, any depth of the queue and any number of presses.             *)
(***************************************************************************)
EXTENDS Cmd, SequenceTheorems, FiniteSetTheorems, TLAPS

---------------------------------------------------------------------------
\* Sequences in the order of another one.

\* One more at the end of both sequences.
LEMMA OrderAppend ==
  ASSUME NEW s \in Seq(Nat), NEW t \in Seq(Nat), NEW n \in Nat,
         InOrderOf(s, t), Range(s) \subseteq Range(t)
  PROVE  InOrderOf(Append(s, n), Append(t, n))
<1> SUFFICES ASSUME NEW i \in DOMAIN Append(s, n), NEW j \in DOMAIN Append(s, n), i < j
             PROVE  \E k, l \in DOMAIN Append(t, n) :
                      /\ k < l
                      /\ Append(t, n)[k] = Append(s, n)[i]
                      /\ Append(t, n)[l] = Append(s, n)[j]
  BY DEF InOrderOf
<1>1. i \in DOMAIN s /\ Append(s, n)[i] = s[i]
  OBVIOUS
<1>2. CASE j \in DOMAIN s
  <2>1. PICK k, l \in DOMAIN t : k < l /\ t[k] = s[i] /\ t[l] = s[j]
    BY <1>1, <1>2 DEF InOrderOf
  <2>2. Append(t, n)[k] = t[k] /\ Append(t, n)[l] = t[l] /\ Append(s, n)[j] = s[j]
    BY <1>2, <2>1
  <2>3. k \in DOMAIN Append(t, n) /\ l \in DOMAIN Append(t, n)
    BY <2>1
  <2>4. QED
    BY <1>1, <2>1, <2>2, <2>3
<1>3. CASE j \notin DOMAIN s
  <2>1. Append(s, n)[j] = n
    BY <1>3
  <2>2. PICK k \in DOMAIN t : t[k] = s[i]
    BY <1>1 DEF Range
  <2>3. /\ Len(t) + 1 \in DOMAIN Append(t, n) /\ Append(t, n)[Len(t) + 1] = n
        /\ k \in DOMAIN Append(t, n) /\ Append(t, n)[k] = t[k]
        /\ k < Len(t) + 1
    BY <2>2
  <2>4. QED
    BY <1>1, <2>1, <2>2, <2>3
<1>4. QED
  BY <1>2, <1>3

\* A beginning of a sequence in order is in order.
LEMMA OrderPrefix ==
  ASSUME NEW s \in Seq(Nat), NEW r \in Seq(Nat), NEW t \in Seq(Nat),
         InOrderOf(s \o r, t)
  PROVE  InOrderOf(s, t)
<1>1. \A i \in DOMAIN s : i \in DOMAIN (s \o r) /\ (s \o r)[i] = s[i]
  OBVIOUS
<1>2. QED
  BY <1>1 DEF InOrderOf

LEMMA RangeAppend ==
  ASSUME NEW s \in Seq(Nat), NEW n \in Nat
  PROVE  Range(Append(s, n)) = Range(s) \union {n}
<1>1. \A i \in DOMAIN s : i \in DOMAIN Append(s, n) /\ Append(s, n)[i] = s[i]
  OBVIOUS
<1>2. Len(s) + 1 \in DOMAIN Append(s, n) /\ Append(s, n)[Len(s) + 1] = n
  OBVIOUS
<1>3. \A i \in DOMAIN Append(s, n) : i \in DOMAIN s \/ Append(s, n)[i] = n
  OBVIOUS
<1>4. QED
  BY <1>1, <1>2, <1>3 DEF Range

LEMMA RangeConcat ==
  ASSUME NEW s \in Seq(Nat), NEW r \in Seq(Nat)
  PROVE  Range(s \o r) = Range(s) \union Range(r)
<1>1. \A i \in DOMAIN s : i \in DOMAIN (s \o r) /\ (s \o r)[i] = s[i]
  OBVIOUS
<1>2. \A i \in DOMAIN r : Len(s) + i \in DOMAIN (s \o r) /\ (s \o r)[Len(s) + i] = r[i]
  OBVIOUS
<1>3. \A i \in DOMAIN (s \o r) :
        i \in DOMAIN s \/ (i - Len(s) \in DOMAIN r /\ (s \o r)[i] = r[i - Len(s)])
  OBVIOUS
<1>4. \A i \in DOMAIN (s \o r) : (s \o r)[i] \in Range(s) \union Range(r)
  BY <1>1, <1>3 DEF Range
<1>5. Range(s) \subseteq Range(s \o r)
  BY <1>1 DEF Range
<1>6. Range(r) \subseteq Range(s \o r)
  BY <1>2 DEF Range
<1>7. QED
  BY <1>4, <1>5, <1>6 DEF Range

---------------------------------------------------------------------------
\* The inductive invariant.

\* A press that has been validated and not yet put is a well-formed command,
\* nobody else's, that no queue has seen.
PutInv ==
  /\ \A p \in Pressers : pc[p] = "put" =>
       /\ msg[p] \in Command /\ WellFormed(msg[p])
       /\ msg[p].press <= presses
       /\ msg[p].press \notin Range(accepted)
  /\ \A p, q \in Pressers :
       pc[p] = "put" /\ pc[q] = "put" /\ msg[p].press = msg[q].press => p = q

\* Every press is accepted once at most, and only what was accepted is flushed.
AcceptedInv ==
  /\ \A k, l \in DOMAIN accepted : accepted[k] = accepted[l] => k = l
  /\ Range(accepted) \subseteq 1..presses
  /\ flushed \subseteq Range(accepted)

\* Who is told `ok` is who was accepted, and only who is still in cmd_post has not
\* been told anything.
InFlight(n) == \E p \in Pressers : pc[p] = "put" /\ msg[p].press = n

AnswerInv ==
  \A n \in 1..MaxPresses :
    /\ n > presses => answer[n] = "none"
    /\ n <= presses =>
         /\ answer[n] = "ok" <=> n \in Range(accepted)
         /\ answer[n] = "none" <=> InFlight(n)

IInv ==
  /\ TypeOK /\ PutInv /\ AcceptedInv /\ AnswerInv
  /\ NoCommandWaits
  /\ AcceptedInOrder

LEMMA InitInv == Init => IInv
<1> SUFFICES ASSUME Init PROVE IInv
  OBVIOUS
<1> USE CmdAssumption DEF Init
<1>1. TypeOK
  BY DEF TypeOK, Nothing, WellFormed, Answers
<1>2. PutInv /\ AcceptedInv /\ NoCommandWaits
  BY DEF PutInv, AcceptedInv, NoCommandWaits, Range
<1>3. Kept = <<>>
  BY DEF Kept, Waiting
<1>4. AcceptedInOrder
  BY <1>3 DEF AcceptedInOrder, InOrderOf, Range
<1>5. AnswerInv
  BY DEF AnswerInv
<1>6. QED
  BY <1>1, <1>2, <1>4, <1>5 DEF IInv

\* What cmd_post lets through is well formed.
LEMMA ValidIsWellFormed ==
  ASSUME NEW kind, NEW track, NEW n, Valid(kind, track)
  PROVE  WellFormed([kind |-> kind, track |-> Normal(kind, track), press |-> n])
BY DEF Valid, Normal, WellFormed

LEMMA PressStep ==
  ASSUME IInv, NEW p \in Pressers, NEW kind \in Kinds \union {BadKind},
         NEW track \in Tracks, Press(p, kind, track)
  PROVE  IInv'
<1> USE CmdAssumption DEF IInv, Press
<1> DEFINE m == [kind |-> kind, track |-> Normal(kind, track), press |-> presses + 1]
<1>1. presses' = presses + 1 /\ presses' \in 1..MaxPresses
  BY DEF TypeOK
<1>2. ASSUME Valid(kind, track) PROVE m \in Command /\ WellFormed(m)
  <2>1. m \in Command
    BY <1>1, <1>2 DEF Valid, Normal, Command, TrackNone
  <2>2. QED
    BY <1>2, <2>1, ValidIsWellFormed
<1>3. TypeOK'
  <2>1. pc' \in [Pressers -> {"idle", "put"}]
    BY DEF TypeOK
  <2>2. msg' \in [Pressers -> Command \union {Nothing}]
    BY <1>2 DEF TypeOK
  <2>3. answer' \in [1..MaxPresses -> Answers]
    BY <1>1 DEF TypeOK, Told, Answers
  <2>4. QED
    BY <1>1, <2>1, <2>2, <2>3 DEF TypeOK, WellFormed
<1>4. PutInv'
  <2>1. CASE UNCHANGED <<msg, pc>>
    BY <1>1, <2>1 DEF PutInv, TypeOK, Command, WellFormed, Range
  <2>2. CASE Valid(kind, track) /\ msg' = [msg EXCEPT ![p] = m]
             /\ pc' = [pc EXCEPT ![p] = "put"]
    <3>1. msg'[p] = m /\ m.press = presses' /\ \A q \in Pressers \ {p} : msg'[q] = msg[q] /\ pc'[q] = pc[q]
      BY <1>1, <2>2 DEF TypeOK
    <3>2. presses + 1 \notin Range(accepted)
      BY <1>1 DEF AcceptedInv, TypeOK
    <3>3. \A q \in Pressers \ {p} : pc[q] = "put" => msg[q].press \in Nat /\ msg[q].press <= presses
      BY DEF PutInv, Command
    <3>4. \A q \in Pressers \ {p} : pc'[q] = "put" => msg'[q].press # presses'
      BY <1>1, <3>1, <3>3 DEF TypeOK
    <3>5. \A q \in Pressers : pc'[q] = "put" =>
            /\ msg'[q] \in Command /\ WellFormed(msg'[q])
            /\ msg'[q].press <= presses'
            /\ msg'[q].press \notin Range(accepted)
      BY <1>1, <1>2, <2>2, <3>1, <3>2, <3>3 DEF PutInv, TypeOK
    <3>6. QED
      BY <3>1, <3>4, <3>5 DEF PutInv, WellFormed
  <2>3. QED
    BY <2>1, <2>2
<1>5. AcceptedInv'
  BY <1>1 DEF AcceptedInv, TypeOK
<1>6. NoCommandWaits' /\ AcceptedInOrder'
  BY DEF NoCommandWaits, AcceptedInOrder, Kept, Waiting
<1>7. AnswerInv'
  <2>0. PICK new \in 1..MaxPresses : new = presses + 1
    BY <1>1
  <2>1. /\ presses + 1 \notin Range(accepted) /\ accepted' = accepted
        /\ answer[presses + 1] = "none" /\ answer \in [1..MaxPresses -> Answers]
        /\ presses \in Nat /\ presses + 1 \in 1..MaxPresses
    BY <1>1 DEF AcceptedInv, TypeOK, AnswerInv
  <2>2. \A q \in Pressers : pc[q] = "put" => msg[q].press \in Nat /\ msg[q].press <= presses
    BY DEF PutInv, Command
  <2>3. CASE Valid(kind, track) /\ msg' = [msg EXCEPT ![p] = m]
             /\ pc' = [pc EXCEPT ![p] = "put"] /\ answer' = answer
    <3>1. /\ pc'[p] = "put" /\ msg'[p] = m /\ m.press = presses + 1
          /\ \A q \in Pressers \ {p} : msg'[q] = msg[q] /\ pc'[q] = pc[q]
      BY <2>3 DEF TypeOK
    <3>2. InFlight(new)'
      BY <2>0, <3>1 DEF InFlight
    <3>3. \A n \in 1..MaxPresses : n # new => (InFlight(n)' <=> InFlight(n))
      BY <2>0, <2>1, <3>1 DEF InFlight
    <3>4. QED
      BY <1>1, <2>0, <2>1, <2>3, <3>2, <3>3 DEF AnswerInv
  <2>4. CASE Told(presses + 1, "EINVAL") /\ UNCHANGED <<msg, pc>>
    <3>1. /\ answer'[presses + 1] = "EINVAL"
          /\ \A n \in 1..MaxPresses \ {presses + 1} : answer'[n] = answer[n]
      BY <2>1, <2>4 DEF Told
    <3>2. ~InFlight(new)'
      BY <2>0, <2>1, <2>2, <2>4 DEF InFlight
    <3>3. \A n \in 1..MaxPresses : n # new => (InFlight(n)' <=> InFlight(n))
      BY <2>4 DEF InFlight
    <3>4. QED
      BY <1>1, <2>0, <2>1, <3>1, <3>2, <3>3 DEF AnswerInv
  <2>5. QED
    BY <2>3, <2>4
<1>8. QED
  BY <1>3, <1>4, <1>5, <1>6, <1>7

---------------------------------------------------------------------------
\* k_msgq_put.

\* The presses in the queue and in the histories are numbers.
LEMMA Numbers ==
  TypeOK => /\ Waiting \in Seq(Nat) /\ acted \in Seq(Nat) /\ accepted \in Seq(Nat)
            /\ Kept \in Seq(Nat)
<1> SUFFICES ASSUME TypeOK
             PROVE  /\ Waiting \in Seq(Nat) /\ acted \in Seq(Nat) /\ accepted \in Seq(Nat)
                    /\ Kept \in Seq(Nat)
  OBVIOUS
<1>1. Waiting \in Seq(Nat)
  <2>1. queue \in Seq(Command)
    BY DEF TypeOK
  <2>2. DOMAIN queue = 1..Len(queue) /\ Len(queue) \in Nat
    BY <2>1, LenProperties
  <2>3. \A i \in DOMAIN queue : queue[i].press \in Nat
    <3>1. \A i \in DOMAIN queue : queue[i] \in Command
      BY <2>1, <2>2, ElementOfSeq
    <3>2. QED
      BY <3>1, CmdAssumption DEF Command
  <2>4. Waiting \in [1..Len(queue) -> Nat]
    BY <2>2, <2>3 DEF Waiting
  <2>5. QED
    BY <2>2, <2>4, SeqDef
<1>2. acted \in Seq(Nat) /\ accepted \in Seq(Nat)
  <2>1. 1..MaxPresses \subseteq Nat
    BY CmdAssumption
  <2>2. QED
    BY <2>1, SeqMonotonic DEF TypeOK
<1>3. QED
  BY <1>1, <1>2 DEF Kept

LEMMA NumbersNext == TypeOK' => Waiting' \in Seq(Nat)
<1>1. (TypeOK => Waiting \in Seq(Nat))'
  BY Numbers, PTL
<1>2. QED
  BY <1>1

\* A command that is accepted is the last one kept, whether it is handed to the
\* player or queued.
LEMMA KeptLonger ==
  ASSUME IInv, NEW m \in Command, Accept(m)
  PROVE  Kept' = Append(Kept, m.press)
<1> USE DEF IInv
<1>1. m.press \in Nat /\ queue \in Seq(Command)
  BY DEF Command, TypeOK
<1>2. CASE player = "waiting" /\ HandOver(m)
  <2>1. queue = <<>> /\ queue' = <<>>
    BY <1>2 DEF NoCommandWaits, HandOver
  <2>2. Waiting = <<>> /\ Waiting' = <<>>
    BY <2>1 DEF Waiting
  <2>3. acted' = Append(acted, m.press)
    BY <1>2 DEF HandOver
  <2>4. QED
    BY <1>1, <2>2, <2>3, Numbers DEF Kept
<1>3. CASE Enqueue(m)
  <2>1. queue' = Append(queue, m) /\ acted' = acted
    BY <1>3 DEF Enqueue
  <2>2. Waiting' = Append(Waiting, m.press)
    BY <1>1, <2>1 DEF Waiting
  <2>3. acted \o Append(Waiting, m.press) = Append(acted \o Waiting, m.press)
    BY <1>1, Numbers
  <2>4. QED
    BY <2>1, <2>2, <2>3 DEF Kept
<1>4. QED
  BY <1>2, <1>3 DEF Accept

\* cmd_post returns with an answer to its press.
LEMMA ToldStep ==
  ASSUME IInv, NEW p \in Pressers, Put(p), NEW a \in Answers \ {"none"},
         Told(msg[p].press, a),
         Range(accepted') = IF a = "ok" THEN Range(accepted) \union {msg[p].press}
                            ELSE Range(accepted)
  PROVE  AnswerInv' /\ answer' \in [1..MaxPresses -> Answers]
<1>0. PICK k \in 1..MaxPresses : k = msg[p].press
  BY DEF Put, IInv, PutInv, Command
<1>1. /\ pc[p] = "put" /\ k <= presses /\ k \notin Range(accepted)
      /\ presses' = presses /\ answer \in [1..MaxPresses -> Answers]
  BY <1>0 DEF Put, IInv, PutInv, TypeOK
<1>2. answer'[k] = a /\ \A n \in 1..MaxPresses \ {k} : answer'[n] = answer[n]
  BY <1>0, <1>1 DEF Told
<1>3. /\ pc'[p] = "idle"
      /\ \A q \in Pressers \ {p} : pc'[q] = pc[q] /\ msg'[q] = msg[q]
  BY DEF Put, IInv, TypeOK
<1>4. \A q \in Pressers \ {p} : pc[q] = "put" => msg[q].press # k
  BY <1>0, <1>1 DEF IInv, PutInv
<1>5. ~InFlight(k)'
  BY <1>3, <1>4 DEF InFlight
<1>6. \A n \in 1..MaxPresses \ {k} : InFlight(n)' <=> InFlight(n)
  BY <1>0, <1>3 DEF InFlight
<1>7. AnswerInv'
  <2>1. ASSUME NEW n \in 1..MaxPresses
        PROVE  /\ n > presses => answer'[n] = "none"
               /\ n <= presses =>
                    /\ answer'[n] = "ok" <=> n \in Range(accepted')
                    /\ answer'[n] = "none" <=> InFlight(n)'
    <3>1. CASE n = k
      BY <1>0, <1>1, <1>2, <1>5, <3>1 DEF IInv, TypeOK
    <3>2. CASE n # k
      BY <1>0, <1>1, <1>2, <1>6, <3>2 DEF IInv, AnswerInv
    <3>. QED BY <3>1, <3>2
  <2>. QED BY <1>1, <2>1 DEF AnswerInv
<1>. QED BY <1>0, <1>1, <1>7 DEF Told, Answers

LEMMA AcceptStep ==
  ASSUME IInv, NEW p \in Pressers, Put(p), Accept(msg[p]) PROVE IInv'
<1> USE CmdAssumption DEF IInv
<1> DEFINE m == msg[p]
           n == m.press
<1>1. /\ pc[p] = "put" /\ m \in Command /\ WellFormed(m)
      /\ n \in 1..MaxPresses /\ n <= presses /\ n \notin Range(accepted)
  BY DEF Put, PutInv, Command
<1>2. /\ accepted' = Append(accepted, n) /\ presses' = presses
      /\ flushed' = flushed /\ Told(n, "ok") /\ before' = before
      /\ pc' = [pc EXCEPT ![p] = "idle"] /\ msg' = [msg EXCEPT ![p] = Nothing]
  BY DEF Put, Accept
<1>3. Range(accepted') = Range(accepted) \union {n}
  BY <1>1, <1>2, RangeAppend, Numbers
<1>told. AnswerInv' /\ answer' \in [1..MaxPresses -> Answers]
  BY <1>2, <1>3, ToldStep DEF Answers
<1>4. TypeOK'
  <2>1. accepted' \in Seq(1..MaxPresses) /\ answer' \in [1..MaxPresses -> Answers]
    BY <1>1, <1>2, <1>told DEF TypeOK
  <2>2. pc' \in [Pressers -> {"idle", "put"}] /\ msg' \in [Pressers -> Command \union {Nothing}]
    BY <1>2 DEF TypeOK
  <2>3. CASE player = "waiting" /\ HandOver(m)
    <3>1. acted' \in Seq(1..MaxPresses)
      BY <1>1, <2>3 DEF HandOver, TypeOK
    <3>2. QED
      BY <1>1, <1>2, <2>1, <2>2, <2>3, <3>1 DEF TypeOK, HandOver, WellFormed
  <2>4. CASE player # "waiting" /\ Enqueue(m)
    <3>1. queue' = Append(queue, m) /\ Len(queue) < Depth
      BY <2>4 DEF Enqueue
    <3>2. queue' \in Seq(Command) /\ Len(queue') <= Depth
      BY <1>1, <3>1 DEF TypeOK
    <3>3. \A i \in DOMAIN queue' : WellFormed(queue'[i])
      BY <1>1, <3>1 DEF TypeOK
    <3>4. QED
      BY <1>2, <2>1, <2>2, <2>4, <3>2, <3>3 DEF TypeOK, Enqueue, WellFormed
  <2>5. QED
    BY <2>3, <2>4 DEF Accept
<1>5. PutInv'
  BY <1>1, <1>2, <1>3 DEF PutInv, TypeOK, WellFormed
<1>6. AcceptedInv'
  <2>1. \A k, l \in DOMAIN accepted' : accepted'[k] = accepted'[l] => k = l
    <3>1. \A k \in DOMAIN accepted : accepted'[k] = accepted[k] /\ accepted[k] # n
      BY <1>1, <1>2, Numbers DEF Range
    <3>2. \A k \in DOMAIN accepted' :
            k \in DOMAIN accepted \/ (k = Len(accepted) + 1 /\ accepted'[k] = n)
      BY <1>1, <1>2, AppendProperties, Numbers
    <3>3. QED
      BY <3>1, <3>2 DEF AcceptedInv
  <2>2. n \in 1..presses
    BY <1>1 DEF TypeOK
  <2>3. QED
    BY <1>2, <1>3, <2>1, <2>2 DEF AcceptedInv
<1>7. NoCommandWaits'
  BY DEF Accept, HandOver, Enqueue, NoCommandWaits
<1>8. AcceptedInOrder'
  <2>1. Kept' = Append(Kept, n)
    BY <1>1, KeptLonger
  <2>2. Range(Kept') = Range(Kept) \union {n}
    BY <1>1, <2>1, RangeAppend, Numbers
  <2>3. n \notin flushed
    BY <1>1 DEF AcceptedInv
  <2>4. Range(Kept)' = Range(accepted)' \ flushed'
    BY <1>2, <1>3, <2>2, <2>3 DEF AcceptedInOrder
  <2>5. Range(Kept) \subseteq Range(accepted) /\ InOrderOf(Kept, accepted)
    BY DEF AcceptedInOrder
  <2>6. InOrderOf(Append(Kept, n), Append(accepted, n))
    BY <1>1, <2>5, OrderAppend, Numbers
  <2>7. QED
    BY <1>2, <2>1, <2>4, <2>6 DEF AcceptedInOrder
<1>9. QED
  BY <1>4, <1>5, <1>6, <1>7, <1>8, <1>told

\* A full queue: nothing changes but what is answered.
LEMMA DropStep ==
  ASSUME IInv, NEW p \in Pressers, Put(p), Drop(msg[p]) PROVE IInv'
<1> USE CmdAssumption DEF IInv
<1>1. msg[p].press \in 1..MaxPresses
  BY DEF Put, PutInv, Command
<1>2. /\ pc' = [pc EXCEPT ![p] = "idle"] /\ msg' = [msg EXCEPT ![p] = Nothing]
      /\ Told(msg[p].press, "ENOMSG")
      /\ UNCHANGED <<queue, player, received, presses, accepted, acted, flushed, before>>
  BY DEF Put, Drop
<1>3. pc' \in [Pressers -> {"idle", "put"}] /\ msg' \in [Pressers -> Command \union {Nothing}]
  BY <1>2 DEF TypeOK
<1>told. AnswerInv' /\ answer' \in [1..MaxPresses -> Answers]
  BY <1>2, ToldStep DEF Answers
<1>4. TypeOK'
  BY <1>1, <1>2, <1>3, <1>told DEF TypeOK, WellFormed
<1>5. PutInv'
  BY <1>2 DEF PutInv, TypeOK, WellFormed
<1>6. AcceptedInv' /\ NoCommandWaits' /\ AcceptedInOrder'
  BY <1>2 DEF AcceptedInv, NoCommandWaits, AcceptedInOrder, Kept, Waiting
<1>7. QED
  BY <1>4, <1>5, <1>6, <1>told

---------------------------------------------------------------------------
\* The player.

\* Taking the oldest command changes nobody's place.
LEMMA TakeStep == ASSUME IInv, Take PROVE IInv'
<1> USE CmdAssumption DEF IInv
<1> DEFINE n == Head(queue).press
<1>1. /\ queue \in Seq(Command) /\ queue # <<>> /\ Head(queue) \in Command
      /\ Len(queue) \in Nat \ {0} /\ Head(queue) = queue[1] /\ 1 \in DOMAIN queue
  BY DEF Take, TypeOK
<1>2. n \in 1..MaxPresses
  BY <1>1 DEF Command
<1>3. /\ queue' = Tail(queue) /\ acted' = Append(acted, n) /\ received' = Head(queue)
      /\ player' = "acting"
      /\ UNCHANGED <<pc, msg, presses, accepted, answer, flushed, before>>
  BY DEF Take
<1>4. /\ queue' \in Seq(Command) /\ Len(queue') = Len(queue) - 1
      /\ \A i \in 1..Len(queue') : queue'[i] = queue[i + 1]
  BY <1>1, <1>3, HeadTailProperties
<1>5. TypeOK'
  <2>1. acted' \in Seq(1..MaxPresses)
    BY <1>2, <1>3 DEF TypeOK
  <2>2. \A i \in DOMAIN queue' : WellFormed(queue'[i])
    <3>1. \A i \in DOMAIN queue' : i + 1 \in DOMAIN queue /\ queue'[i] = queue[i + 1]
      BY <1>1, <1>4
    <3>2. QED
      BY <3>1 DEF TypeOK
  <2>3. WellFormed(received')
    BY <1>1, <1>3 DEF TypeOK
  <2>4. QED
    BY <1>1, <1>3, <1>4, <2>1, <2>2, <2>3 DEF TypeOK, WellFormed
<1>6. Kept' = Kept
  <2>1. Waiting = <<n>> \o Waiting'
    <3>1. /\ Waiting \in Seq(Nat) /\ Len(Waiting) = Len(queue)
          /\ \A i \in 1..Len(queue) : Waiting[i] = queue[i].press
      BY <1>1, Numbers DEF Waiting
    <3>2. /\ Waiting' \in Seq(Nat) /\ Len(Waiting') = Len(queue')
          /\ \A i \in 1..Len(queue') : Waiting'[i] = queue'[i].press
      <4>1. Waiting' \in Seq(Nat)
        BY <1>5, NumbersNext
      <4>2. QED
        BY <1>4, <4>1 DEF Waiting
    <3>3. DEFINE w == <<n>> \o Waiting'
    <3>4. /\ w \in Seq(Nat) /\ Len(w) = Len(queue)
          /\ w[1] = n /\ \A i \in 2..Len(queue) : w[i] = Waiting'[i - 1]
      BY <1>1, <1>2, <1>4, <3>2
    <3> HIDE DEF w
    <3>5. ASSUME NEW i \in 2..Len(queue) PROVE w[i] = Waiting[i]
      <4>1. i - 1 \in 1..Len(queue') /\ (i - 1) + 1 = i /\ i \in 1..Len(queue)
        BY <1>1, <1>4
      <4>2. Waiting'[i - 1] = queue[i].press
        BY <1>4, <3>2, <4>1
      <4>3. QED
        BY <3>1, <3>4, <4>1, <4>2
    <3>6. w[1] = Waiting[1]
      BY <1>1, <3>1, <3>4
    <3>7. \A i \in 1..Len(queue) : i = 1 \/ i \in 2..Len(queue)
      BY <1>1
    <3>8. \A i \in 1..Len(queue) : w[i] = Waiting[i]
      BY <3>5, <3>6, <3>7
    <3>9. w = Waiting
      BY <3>1, <3>4, <3>8, SeqEqual
    <3>10. QED
      BY <3>9 DEF w
  <2>2. Waiting' \in Seq(Nat)
    BY <1>5, NumbersNext
  <2>3. acted \o (<<n>> \o Waiting') = Append(acted, n) \o Waiting'
    BY <1>2, <2>2, Numbers
  <2>4. QED
    BY <1>3, <2>1, <2>3 DEF Kept
<1>7. PutInv' /\ AcceptedInv' /\ AnswerInv' /\ NoCommandWaits' /\ AcceptedInOrder'
  BY <1>3, <1>6 DEF PutInv, AcceptedInv, AnswerInv, InFlight, NoCommandWaits, AcceptedInOrder, WellFormed
<1>8. QED
  BY <1>5, <1>7

\* A flush leaves out exactly what was waiting: none of it had reached the
\* player, since every press is accepted once.
LEMMA FlushStep == ASSUME IInv, Flush PROVE IInv'
<1> USE CmdAssumption DEF IInv
<1>1. /\ queue' = <<>> /\ flushed' = flushed \union Presses(queue) /\ before' = presses
      /\ UNCHANGED <<pc, msg, player, received, presses, accepted, acted, answer>>
  BY DEF Flush
<1>2. Range(Waiting) = Presses(queue)
  BY DEF Waiting, Presses, Range
<1>3. Range(Kept) = Range(acted) \union Presses(queue)
  BY <1>2, RangeConcat, Numbers DEF Kept
<1>4. Presses(queue) \subseteq Range(accepted)
  BY <1>3 DEF AcceptedInOrder
<1>5. Range(accepted) \subseteq 1..MaxPresses
  BY DEF AcceptedInv, TypeOK
<1>6. TypeOK'
  <2>1. queue' \in Seq(Command) /\ Len(queue') = 0 /\ DOMAIN queue' = {}
    BY <1>1
  <2>2. flushed' \subseteq 1..MaxPresses /\ before' \in 0..MaxPresses
    BY <1>1, <1>4, <1>5 DEF TypeOK
  <2>3. QED
    BY <1>1, <2>1, <2>2 DEF TypeOK, WellFormed
<1>7. PutInv' /\ AcceptedInv' /\ AnswerInv' /\ NoCommandWaits'
  BY <1>1, <1>4 DEF PutInv, AcceptedInv, AnswerInv, InFlight, NoCommandWaits, WellFormed
<1>8. Kept' = acted
  BY <1>1, Numbers DEF Kept, Waiting
<1>9. \A n \in Range(acted) : n \notin Presses(queue)
  <2>1. ASSUME NEW i \in DOMAIN acted, NEW j \in DOMAIN queue, acted[i] = queue[j].press
        PROVE  FALSE
    <3>1. /\ Waiting \in Seq(Nat) /\ Len(Waiting) = Len(queue) /\ j \in 1..Len(queue)
          /\ Waiting[j] = queue[j].press
      BY Numbers DEF Waiting, TypeOK
    <3>2. /\ i \in DOMAIN Kept /\ Len(acted) + j \in DOMAIN Kept /\ i < Len(acted) + j
          /\ Kept[i] = acted[i] /\ Kept[Len(acted) + j] = Waiting[j]
      BY <3>1, Numbers DEF Kept
    <3>3. PICK k, l \in DOMAIN accepted :
            k < l /\ accepted[k] = Kept[i] /\ accepted[l] = Kept[Len(acted) + j]
      BY <3>2 DEF AcceptedInOrder, InOrderOf
    <3>4. k = l
      BY <2>1, <3>1, <3>2, <3>3 DEF AcceptedInv
    <3>5. QED
      BY <3>3, <3>4, Numbers
  <2>2. QED
    BY <2>1 DEF Range, Presses
<1>10. AcceptedInOrder'
  <2>1. Range(acted) = Range(accepted) \ (flushed \union Presses(queue))
    BY <1>3, <1>9 DEF AcceptedInOrder
  <2>2. InOrderOf(acted, accepted)
    BY OrderPrefix, Numbers DEF AcceptedInOrder, Kept
  <2>3. QED
    BY <1>1, <1>8, <2>1, <2>2 DEF AcceptedInOrder
<1>11. QED
  BY <1>6, <1>7, <1>10

\* The steps that move no command.
LEMMA PlayerStep ==
  ASSUME IInv, Wait \/ Expire \/ Done \/ UNCHANGED cmdVars PROVE IInv'
<1> USE DEF IInv, history, cmdVars
<1>1. UNCHANGED <<queue, pc, msg, presses, accepted, acted, answer, flushed, before>>
  BY DEF Wait, Expire, Done
<1>2. TypeOK'
  BY <1>1 DEF TypeOK, WellFormed, Wait, Expire, Done
<1>3. PutInv' /\ AcceptedInv' /\ AnswerInv' /\ AcceptedInOrder'
  BY <1>1 DEF PutInv, AcceptedInv, AnswerInv, InFlight, AcceptedInOrder, Kept, Waiting, WellFormed
<1>4. NoCommandWaits'
  BY DEF NoCommandWaits, Wait, Expire, Done
<1>5. QED
  BY <1>2, <1>3, <1>4

---------------------------------------------------------------------------

LEMMA NextInv == ASSUME IInv, [Next]_cmdVars PROVE IInv'
<1>1. ASSUME NEW p \in Pressers, Put(p) PROVE IInv'
  BY <1>1, AcceptStep, DropStep DEF Put
<1>2. QED
  BY <1>1, PressStep, TakeStep, FlushStep, PlayerStep DEF Next

\* The queue never holds more than CMD_QUEUE_DEPTH commands, and whatever is
\* passed to cmd_post, what waits and what the player gets is well formed.
THEOREM TypeCorrect == Spec => []TypeOK
<1>1. IInv => TypeOK
  BY DEF IInv
<1>2. QED
  BY <1>1, InitInv, NextInv, PTL DEF Spec

\* The player gets what was accepted, in the order of acceptance, each once, and
\* without what was flushed.
THEOREM OrderIsKept == Spec => []AcceptedInOrder
<1>1. IInv => AcceptedInOrder
  BY DEF IInv
<1>2. QED
  BY <1>1, InitInv, NextInv, PTL DEF Spec

\* The player never sleeps over a command that is in the queue.
THEOREM SleepIsEmpty == Spec => []NoCommandWaits
<1>1. IInv => NoCommandWaits
  BY DEF IInv
<1>2. QED
  BY <1>1, InitInv, NextInv, PTL DEF Spec

\* Among the commands in the queue none is there twice, nor has any reached the
\* player or been flushed: they are all that the player owes.
LEMMA BacklogIsTheQueue ==
  ASSUME IInv PROVE Cardinality(Backlog) = Len(queue)
<1>1. /\ Waiting \in Seq(Nat) /\ acted \in Seq(Nat) /\ accepted \in Seq(Nat)
      /\ queue \in Seq(Command) /\ Len(Waiting) = Len(queue) /\ Len(queue) \in Nat
  BY Numbers DEF IInv, TypeOK, Waiting
<1>2. \A i \in DOMAIN Kept, j \in DOMAIN Kept : i < j => Kept[i] # Kept[j]
  <2> SUFFICES ASSUME NEW i \in DOMAIN Kept, NEW j \in DOMAIN Kept, i < j, Kept[i] = Kept[j]
               PROVE  FALSE
    OBVIOUS
  <2>1. PICK k, l \in DOMAIN accepted : k < l /\ accepted[k] = Kept[i] /\ accepted[l] = Kept[j]
    BY DEF IInv, AcceptedInOrder, InOrderOf
  <2>2. k = l
    BY <2>1 DEF IInv, AcceptedInv
  <2>. QED BY <1>1, <2>1, <2>2
<1>3. \A i \in 1..Len(queue) :
        Len(acted) + i \in DOMAIN Kept /\ Kept[Len(acted) + i] = Waiting[i]
  BY <1>1 DEF Kept
<1>4. \A i, j \in 1..Len(queue) : i # j => Waiting[i] # Waiting[j]
  <2>1. ASSUME NEW i \in 1..Len(queue), NEW j \in 1..Len(queue), i < j
        PROVE  Waiting[i] # Waiting[j]
    <3>1. Len(acted) + i < Len(acted) + j
      BY <1>1, <2>1
    <3>. QED BY <1>2, <1>3, <3>1
  <2>. QED BY <1>1, <2>1
<1>5. Range(Waiting) \intersect Range(acted) = {}
  <2> SUFFICES ASSUME NEW i \in DOMAIN acted, NEW j \in 1..Len(queue), acted[i] = Waiting[j]
               PROVE  FALSE
    BY <1>1 DEF Range
  <2>1. i \in DOMAIN Kept /\ Kept[i] = acted[i] /\ i < Len(acted) + j
    BY <1>1 DEF Kept
  <2>. QED BY <1>2, <1>3, <2>1
<1>6. Backlog = Range(Waiting)
  <2>1. Range(acted) \union Range(Waiting) = Range(accepted) \ flushed
    BY <1>1, RangeConcat DEF IInv, AcceptedInOrder, Kept
  <2>. QED BY <1>5, <2>1 DEF Backlog
<1>7. Waiting \in Bijection(1..Len(queue), Range(Waiting))
  <2>1. DOMAIN Waiting = 1..Len(queue) /\ Waiting \in [1..Len(queue) -> Range(Waiting)]
    BY <1>1 DEF Range
  <2>2. \A x \in Range(Waiting) : \E i \in 1..Len(queue) : Waiting[i] = x
    BY <2>1 DEF Range
  <2>. QED BY <1>4, <2>1, <2>2 DEF Bijection, Injection, Surjection, IsInjective
<1>. QED BY <1>1, <1>6, <1>7, FS_CountingElements DEF ExistsBijection

\* What cmd_post answered is what became of the press, whatever happened since, and
\* a press is lost only to a player that is CMD_QUEUE_DEPTH commands behind.
THEOREM LossIsTold == Spec => NothingLostInSilence
<1>1. IInv => ToldTheTruth
  <2> SUFFICES ASSUME IInv PROVE ToldTheTruth
    OBVIOUS
  <2>1. Range(Kept) \union flushed = Range(accepted)
    BY DEF IInv, AcceptedInOrder, AcceptedInv
  <2>2. \A n \in 1..presses : n \in 1..MaxPresses /\ n <= presses
    BY CmdAssumption DEF IInv, TypeOK
  <2>. QED BY <2>1, <2>2 DEF IInv, AnswerInv, InFlight, ToldTheTruth
<1>2. IInv /\ [Next]_cmdVars
        => [\A n \in 1..MaxPresses :
              answer[n] # "ENOMSG" /\ answer'[n] = "ENOMSG"
                => Cardinality(Backlog) = Depth]_cmdVars
  <2> SUFFICES ASSUME IInv, Next, NEW n \in 1..MaxPresses,
                      answer[n] # "ENOMSG", answer'[n] = "ENOMSG"
               PROVE  Cardinality(Backlog) = Depth
    OBVIOUS
  <2>1. \A k, a : answer' # answer /\ Told(k, a) => a = "ENOMSG"
    BY DEF IInv, TypeOK, Told
  <2>2. PICK p \in Pressers : Drop(msg[p])
    BY <2>1 DEF Next, Press, Put, Accept, Take, Wait, Expire, Done, Flush, history
  <2>3. Len(queue) \in Nat /\ Len(queue) <= Depth /\ Len(queue) >= Depth
    BY <2>2 DEF IInv, TypeOK, Drop
  <2>4. Len(queue) = Depth
    BY <2>3, CmdAssumption
  <2>. QED BY <2>4, BacklogIsTheQueue
<1>. QED
  BY <1>1, <1>2, InitInv, NextInv, PTL DEF Spec, NothingLostInSilence
=============================================================================
