-------------------------------- MODULE Cmd --------------------------------
(***************************************************************************)
(* src/cmd.c: the queue of transport commands between whoever presses (the *)
(* input thread, an input callback in interrupt context) and the player.   *)
(*                                                                         *)
(* cmd_post runs in two steps, since a more urgent thread may come between *)
(* the validation and k_msgq_put; k_msgq_put, k_msgq_get and k_msgq_purge  *)
(* are one step each, under the lock of the queue.  The player waits for a *)
(* command with any timeout, and throws the pending ones away when the     *)
(* track changes.                                                          *)
(*                                                                         *)
(* A definition marked "Defect" is not part of the model: it is what the   *)
(* definition below it would be with a plausible mistake in the code.      *)
(***************************************************************************)
EXTENDS Integers, Sequences, SequencesExt

CONSTANTS
  Pressers,     \* who calls cmd_post
  Kinds,        \* the valid values of enum cmd_kind
  Select,       \* CMD_SELECT
  BadKind,      \* any value outside the enumeration
  Tracks,       \* the tracks a presser passes
  LibraryMax,   \* LIBRARY_MAX
  Depth,        \* CMD_QUEUE_DEPTH
  MaxPresses    \* bound on the calls of cmd_post

ASSUME CmdAssumption ==
  /\ Select \in Kinds /\ BadKind \notin Kinds
  /\ Tracks \subseteq Int
  /\ LibraryMax \in Nat /\ Depth \in Nat \ {0} /\ MaxPresses \in Nat

TrackNone == -1

VARIABLES
  queue,        \* cmd_queue
  pc,           \* pc[p]: "idle", or "put" between validation and k_msgq_put
  msg,          \* msg[p]: the local `msg` of cmd_post
  player,       \* "running", "waiting" in cmd_get, or "acting" on a command
  received,     \* the command cmd_get gave the player
  presses,      \* history: how many commands were pressed
  accepted,     \* history: the presses for which k_msgq_put answered 0, in order
  acted,        \* history: the presses the player got, in order
  answer,       \* history: what cmd_post answered each press, or "none" so far
  flushed,      \* history: the presses thrown away by cmd_flush
  before        \* history: the presses made before the last cmd_flush

history == <<presses, accepted, acted, answer, flushed, before>>
cmdVars == <<queue, pc, msg, player, received, history>>

\* struct cmd, with the number of the press as a history component.
Command ==
  [kind : Kinds, track : Tracks \union {TrackNone}, press : 1..MaxPresses]

Nothing == [kind |-> Select, track |-> TrackNone, press |-> 0]

\* What a player can act on: a command of the enumeration, with a track of the
\* library if it is CMD_SELECT and none if it is not.
WellFormed(m) ==
  /\ m.kind \in Kinds
  /\ IF m.kind = Select THEN m.track \in 0..(LibraryMax - 1) ELSE m.track = TrackNone

Answers == {"none", "ok", "EINVAL", "ENOMSG"}

Told(n, a) == answer' = [answer EXCEPT ![n] = a]

Presses(s) == {s[i].press : i \in DOMAIN s}

\* Every variable keeps its type, the queue its limit, and what waits in it or
\* reached the player is well formed, whatever was passed to cmd_post.
TypeOK ==
  /\ queue \in Seq(Command) /\ Len(queue) <= Depth
  /\ \A i \in DOMAIN queue : WellFormed(queue[i])
  /\ player = "acting" => WellFormed(received)
  /\ pc \in [Pressers -> {"idle", "put"}]
  /\ msg \in [Pressers -> Command \union {Nothing}]
  /\ player \in {"running", "waiting", "acting"}
  /\ received \in Command \union {Nothing}
  /\ presses \in 0..MaxPresses
  /\ accepted \in Seq(1..MaxPresses) /\ acted \in Seq(1..MaxPresses)
  /\ answer \in [1..MaxPresses -> Answers]
  /\ flushed \subseteq 1..MaxPresses
  /\ before \in 0..MaxPresses

Init ==
  /\ queue = <<>>
  /\ pc = [p \in Pressers |-> "idle"]
  /\ msg = [p \in Pressers |-> Nothing]
  /\ player = "running"
  /\ received = Nothing
  /\ presses = 0
  /\ accepted = <<>> /\ acted = <<>>
  /\ answer = [n \in 1..MaxPresses |-> "none"]
  /\ flushed = {}
  /\ before = 0

---------------------------------------------------------------------------
\* cmd_post.

\* Defect: the last valid index of the library is one too far.
ValidUpTo(kind, track) ==
  kind \in Kinds /\ (kind = Select => track \in 0..LibraryMax)

\* Whether cmd_post lets the command through; otherwise it is -EINVAL.
Valid(kind, track) ==
  kind \in Kinds /\ (kind = Select => track \in 0..(LibraryMax - 1))

\* Only CMD_SELECT carries a track.
Normal(kind, track) == IF kind = Select THEN track ELSE TrackNone

Press(p, kind, track) ==
  /\ pc[p] = "idle"
  /\ presses < MaxPresses
  /\ presses' = presses + 1
  /\ \/ /\ Valid(kind, track)
        /\ msg' = [msg EXCEPT ![p] =
             [kind |-> kind, track |-> Normal(kind, track), press |-> presses + 1]]
        /\ pc' = [pc EXCEPT ![p] = "put"]
        /\ UNCHANGED answer
     \/ /\ ~Valid(kind, track)
        /\ Told(presses + 1, "EINVAL")
        /\ UNCHANGED <<msg, pc>>
  /\ UNCHANGED <<queue, player, received, accepted, acted, flushed, before>>

\* k_msgq_put gives the command to a thread that is waiting for one.
HandOver(m) ==
  /\ player' = "acting"
  /\ received' = m
  /\ acted' = Append(acted, m.press)
  /\ UNCHANGED queue

\* Defect: a full queue makes room by forgetting its oldest command.
EnqueueOverwriting(m) ==
  /\ queue' = Append(IF Len(queue) = Depth THEN Tail(queue) ELSE queue, m)
  /\ UNCHANGED <<player, received, acted>>

\* Defect: the newest command goes to the front.
EnqueueInFront(m) ==
  /\ Len(queue) < Depth
  /\ queue' = <<m>> \o queue
  /\ UNCHANGED <<player, received, acted>>

\* k_msgq_put with room in the queue.
Enqueue(m) ==
  /\ Len(queue) < Depth
  /\ queue' = Append(queue, m)
  /\ UNCHANGED <<player, received, acted>>

\* Defect: the last place of the queue is never used.
DropEarly(m) ==
  /\ Len(queue) >= Depth - 1
  /\ Told(m.press, "ENOMSG")
  /\ UNCHANGED <<queue, player, received, accepted, acted>>

\* Defect: what k_msgq_put answered is not handed on.
DropUntold(m) ==
  /\ Len(queue) >= Depth
  /\ Told(m.press, "ok")
  /\ UNCHANGED <<queue, player, received, accepted, acted>>

\* k_msgq_put with K_NO_WAIT and a full queue: -ENOMSG, the command is gone.
Drop(m) ==
  /\ Len(queue) >= Depth
  /\ Told(m.press, "ENOMSG")
  /\ UNCHANGED <<queue, player, received, accepted, acted>>

Accept(m) ==
  /\ \/ player = "waiting" /\ HandOver(m)
     \/ player # "waiting" /\ Enqueue(m)
  /\ accepted' = Append(accepted, m.press)
  /\ Told(m.press, "ok")

Put(p) ==
  /\ pc[p] = "put"
  /\ pc' = [pc EXCEPT ![p] = "idle"]
  /\ msg' = [msg EXCEPT ![p] = Nothing]
  /\ Accept(msg[p]) \/ (player # "waiting" /\ Drop(msg[p]))
  /\ UNCHANGED <<presses, flushed, before>>

---------------------------------------------------------------------------
\* cmd_get and cmd_flush, which the player calls.

\* k_msgq_get with a command in the queue.
Take ==
  /\ player = "running"
  /\ queue # <<>>
  /\ queue' = Tail(queue)
  /\ received' = Head(queue)
  /\ acted' = Append(acted, Head(queue).press)
  /\ player' = "acting"
  /\ UNCHANGED <<pc, msg, presses, accepted, answer, flushed, before>>

\* k_msgq_get with nothing in the queue and a timeout: the player pends.
Wait ==
  /\ player = "running"
  /\ queue = <<>>
  /\ player' = "waiting"
  /\ UNCHANGED <<queue, pc, msg, received, history>>

\* The timeout: -EAGAIN.
Expire ==
  /\ player = "waiting"
  /\ player' = "running"
  /\ UNCHANGED <<queue, pc, msg, received, history>>

\* The player is done with the command.
Done ==
  /\ player = "acting"
  /\ player' = "running"
  /\ received' = Nothing
  /\ UNCHANGED <<queue, pc, msg, history>>

\* cmd_flush, also while the player acts on a command that changes the track.
Flush ==
  /\ player # "waiting"
  /\ queue' = <<>>
  /\ flushed' = flushed \union Presses(queue)
  /\ before' = presses
  /\ UNCHANGED <<pc, msg, player, received, presses, accepted, acted, answer>>

---------------------------------------------------------------------------
Next ==
  \/ \E p \in Pressers :
       \/ \E k \in Kinds \union {BadKind}, t \in Tracks : Press(p, k, t)
       \/ Put(p)
  \/ Take \/ Wait \/ Expire \/ Done \/ Flush

Spec == Init /\ [][Next]_cmdVars

\* A thread that has a call to finish finishes it, and the player keeps asking
\* for commands.  Nothing makes anybody press, a timeout expire or a track
\* change.
Fairness ==
  /\ \A p \in Pressers : WF_cmdVars(Put(p))
  /\ WF_cmdVars(Take \/ Wait) /\ WF_cmdVars(Done)

FairSpec == Spec /\ Fairness

---------------------------------------------------------------------------
\* Properties.

\* Of two elements of s, the earlier one is the earlier one of t too.
InOrderOf(s, t) ==
  \A i, j \in DOMAIN s :
    i < j => \E k, l \in DOMAIN t : k < l /\ t[k] = s[i] /\ t[l] = s[j]

Waiting == [i \in DOMAIN queue |-> queue[i].press]

\* The commands that were accepted and not flushed, in order: those the
\* player got, and those that wait.
Kept == acted \o Waiting

\* The player gets the commands in the order in which they were accepted, each
\* once (twice would be out of order: every press is accepted once), and only a
\* flush leaves one out.
AcceptedInOrder ==
  /\ Range(Kept) = Range(accepted) \ flushed
  /\ InOrderOf(Kept, accepted)

\* What cmd_post answered is what became of the press: a command is with the
\* player, in the queue or flushed exactly if its caller was told that it was
\* accepted, and everybody but who is still in cmd_post has been told something.
ToldTheTruth ==
  \A n \in 1..presses :
    /\ answer[n] = "ok" <=> n \in Range(Kept) \union flushed
    /\ answer[n] = "none" <=> \E p \in Pressers : pc[p] = "put" /\ msg[p].press = n

\* What the player still owes of all it was given.
Backlog == Range(accepted) \ (Range(acted) \union flushed)

\* No press is lost without an answer, neither when it is made nor later, and the
\* answer that it is lost is only given when the player is CMD_QUEUE_DEPTH
\* commands behind.
NothingLostInSilence ==
  /\ []ToldTheTruth
  /\ [][\A n \in 1..MaxPresses :
          answer[n] # "ENOMSG" /\ answer'[n] = "ENOMSG"
            => Cardinality(Backlog) = Depth]_cmdVars

\* The player never sleeps over a command that is in the queue.
NoCommandWaits == player = "waiting" => queue = <<>>

\* Every command that was accepted is acted on or flushed.
AcceptedIsActedOn ==
  \A n \in 1..MaxPresses :
    n \in Range(accepted) ~> n \in Range(acted) \union flushed

\* A command pressed before the track changed does not act on the new track.
FlushedIsGone ==
  [][acted' # acted => Last(acted') > before]_cmdVars
=============================================================================
