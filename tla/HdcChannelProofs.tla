-------------------------- MODULE HdcChannelProofs --------------------------
(***************************************************************************)
(* That a channel is taken apart only after the work thread has let it go, *)
(* for any number of channels and of writes under way.                     *)
(*                                                                         *)
(* A channel is freed without asking the work thread when hChildWorkTCP is *)
(* null.  That this is safe rests on facts that are spread over both       *)
(* loops: who holds a reference (Counted), that nothing asks for the end   *)
(* of a channel while its ATTACH is on the way (Bound, Attached), and that *)
(* a DETACH is sent once and taken by a channel that waits for it          *)
(* (Detached).                                                             *)
(***************************************************************************)
EXTENDS HdcChannel, TLAPS

-----------------------------------------------------------------------------
(* The invariant.                                                            *)

Sends(q, command, c) == \E i \in DOMAIN q : q[i] = [command |-> command, c |-> c]

\* A command that the work thread has not dispatched: in its pipe, or read from it.
OnWay(command, c) == Sends(ctrl, command, c) \/ Sends(batch, command, c)

\* No command is twice on the way.
Once ==
    /\ \A i, j \in DOMAIN ctrl : ctrl[i] = ctrl[j] => i = j
    /\ \A i, j \in DOMAIN batch : batch[i] = batch[j] => i = j
    /\ \A i \in DOMAIN ctrl, j \in DOMAIN batch : ctrl[i] # batch[j]

\* The STOP is sent when the session is stopped.
StopIsSent == session # "stopping" => ~OnWay("STOP", None)

Count(p) == IF p THEN 1 ELSE 0

\* Who holds a reference: the banner, BindChannelToSession until its handle has closed,
\* FetchCommand, and each write.
Counted ==
    \A c \in Channel :
        ref[c] = Count(c \in mainWrite) + Count(bind[c] = "next" /\ hWork[c] = "closing")
                 + Count(fetch.c = c) + writes[c]

\* Where a banner is written, the handle is not closed, and its reference keeps the
\* channel.
Greeted ==
    \A c \in Channel :
        /\ stage[c] = "none" => hWork[c] = "null" /\ bind[c] = "none" /\ c \notin mainWrite
        /\ c \in mainWrite => hWork[c] \in {"open", "closing"} /\ stage[c] \in {"open", "refs"}

\* From BindChannelToSession until the ATTACH is dispatched nobody can ask for the end of
\* the channel.
Bound ==
    \A c \in Channel :
        /\ c \in trying => bind[c] = "local"
        /\ bind[c] = "next" => stage[c] = "open" /\ hWork[c] \in {"closing", "closed"}
        /\ bind[c] # "sent" => hChild[c] = "null" /\ ~OnWay("ATTACH", c)
        /\ OnWay("ATTACH", c) => stage[c] = "open" /\ hChild[c] = "null" /\ hWork[c] = "closed"

\* What the work thread does with a channel, and what comes of it, begins with the ATTACH.
Attached ==
    \A c \in Channel :
        hChild[c] = "null" =>
            /\ c \notin asyncFree /\ c \notin forward /\ c \notin task
            /\ writes[c] = 0 /\ fetch.c # c /\ clearing[c] = "no"

\* A packet is handled between two dispatches, and its reference keeps the channel.
Fetched ==
    /\ fetch = NoFetch \/ fetch.c \in Channel
    /\ fetch.live => fetch.c \in Channel /\ stage[fetch.c] \in {"open", "refs"}

\* The DETACH is sent once, and what it sets off is the last the work thread has to do
\* with the channel.
Detached ==
    \A c \in Channel :
        /\ stage[c] \in {"none", "open", "refs"} =>
              ~childCleared[c] /\ clearing[c] = "no" /\ ~OnWay("DETACH", c)
        /\ stage[c] \in {"child", "handles", "gone"} => writes[c] = 0
        /\ OnWay("DETACH", c) =>
              stage[c] = "child" /\ ~childCleared[c] /\ clearing[c] = "no" /\ hChild[c] # "null"
        /\ clearing[c] # "no" =>
              /\ stage[c] = "child" /\ ~childCleared[c] /\ c \notin task
              /\ hChild[c] \in {"closing", "closed"}
        /\ childCleared[c] /\ session = "up" => hChild[c] = "closed" /\ c \notin task
        /\ stage[c] \in {"handles", "gone"} => hChild[c] = "null" \/ childCleared[c]

\* TypeOK without the pipe and the counts.
Typed ==
    /\ session \in {"up", "dead", "stopping"} /\ loop \in Loop
    /\ fetch \in [c : Channel \cup {None}, live : BOOLEAN]
    /\ stage \in [Channel -> Stage]
    /\ hWork \in [Channel -> Handle] /\ hChild \in [Channel -> Handle]
    /\ bind \in [Channel -> {"none", "local", "next", "sent", "failed"}]
    /\ mainWrite \subseteq Channel /\ trying \subseteq Channel /\ asyncFree \subseteq Channel
    /\ forward \subseteq Channel /\ task \subseteq Channel
    /\ childCleared \in [Channel -> BOOLEAN]
    /\ clearing \in [Channel -> {"no", "callback", "next"}]
    /\ writes \in [Channel -> 0..MaxWrites] /\ ref \in [Channel -> Int]

Pipe == ctrl \in Seq(Command) /\ batch \in Seq(Command) /\ Once

IInv ==
    Typed /\ Pipe /\ StopIsSent /\ Counted /\ Greeted /\ Bound /\ Attached /\ Fetched /\ Detached

-----------------------------------------------------------------------------
(* The pipe.                                                                 *)

\* What is on the way stays there when nobody sends or dispatches ...
LEMMA PipeStays ==
    ASSUME Pipe, UNCHANGED <<ctrl, batch>>
    PROVE  Pipe' /\ \A k, d : OnWay(k, d)' <=> OnWay(k, d)
  BY DEF Pipe, Once, OnWay, Sends

\* ... and when the pipe is read.
LEMMA PipeIsRead ==
    ASSUME Pipe, batch = <<>>, batch' = ctrl, ctrl' = <<>>
    PROVE  Pipe' /\ \A k, d : OnWay(k, d)' <=> OnWay(k, d)
  BY DEF Pipe, Once, OnWay, Sends

\* A command that is sent, and was not on the way.
LEMMA PipeGrows ==
    ASSUME Pipe, NEW k, NEW c, [command |-> k, c |-> c] \in Command, ~OnWay(k, c),
           Put(k, c), batch' = batch
    PROVE  /\ Pipe'
           /\ \A j, d : OnWay(j, d)' <=> OnWay(j, d) \/ (j = k /\ d = c)
<1> DEFINE m == [command |-> k, c |-> c]
<1>1. /\ ctrl' = Append(ctrl, m) /\ ctrl \in Seq(Command) /\ batch \in Seq(Command) /\ m \in Command
      /\ \A i \in DOMAIN ctrl : ctrl[i] # m
      /\ \A i \in DOMAIN batch : batch[i] # m
  BY DEF Pipe, Put, OnWay, Sends
<1>2. /\ ctrl' \in Seq(Command) /\ DOMAIN ctrl' = 1..(Len(ctrl) + 1) /\ ctrl'[Len(ctrl) + 1] = m
      /\ DOMAIN ctrl = 1..Len(ctrl) /\ Len(ctrl) \in Nat
      /\ \A i \in DOMAIN ctrl : i \in DOMAIN ctrl' /\ ctrl'[i] = ctrl[i]
  BY <1>1
<1> HIDE DEF m
<1>3. Pipe'
  BY <1>1, <1>2 DEF Pipe, Once
<1>4. \A j, d : Sends(ctrl, j, d)' <=> Sends(ctrl, j, d) \/ m = [command |-> j, c |-> d]
  BY <1>2 DEF Sends
<1>5. \A j, d : m = [command |-> j, c |-> d] <=> j = k /\ d = c
  BY DEF m
<1> QED
  BY <1>3, <1>4, <1>5 DEF OnWay, Sends

\* A command that is dispatched is on the way no more.
LEMMA PipeShrinks ==
    ASSUME Pipe, NEW k, NEW c, Dispatch(k, c), ctrl' = ctrl
    PROVE  /\ Pipe' /\ OnWay(k, c) /\ ~OnWay(k, c)'
           /\ \A j, d : j # k \/ d # c => (OnWay(j, d)' <=> OnWay(j, d))
<1> DEFINE m == [command |-> k, c |-> c]
<1>1. /\ ctrl \in Seq(Command) /\ batch \in Seq(Command) /\ batch # <<>>
      /\ Head(batch) = m /\ batch' = Tail(batch)
  BY DEF Pipe, Dispatch
<1>2. /\ batch' \in Seq(Command) /\ Len(batch) \in Nat \ {0} /\ batch[1] = m
      /\ DOMAIN batch = 1..Len(batch) /\ DOMAIN batch' = 1..(Len(batch) - 1)
      /\ \A i \in DOMAIN batch' : i + 1 \in DOMAIN batch /\ batch'[i] = batch[i + 1]
  BY <1>1
<1>3. \A i \in DOMAIN batch : i = 1 \/ (i - 1 \in DOMAIN batch' /\ batch'[i - 1] = batch[i])
  BY <1>2
<1> HIDE DEF m
<1>4. Pipe'
  BY <1>1, <1>2 DEF Pipe, Once
<1>5. \A i \in DOMAIN batch' : batch'[i] # m
  <2>1. \A i, j \in DOMAIN batch : batch[i] = batch[j] => i = j
    BY DEF Pipe, Once
  <2>2. 1 \in DOMAIN batch /\ \A i \in DOMAIN batch' : i + 1 # 1
    BY ONLY <1>2
  <2> QED
    BY ONLY <1>2, <2>1, <2>2
<1>6. \A i \in DOMAIN ctrl : ctrl[i] # m
  BY <1>2 DEF Pipe, Once
<1>7. \A j, d : Sends(batch, j, d) <=> Sends(batch, j, d)' \/ m = [command |-> j, c |-> d]
  BY <1>2, <1>3 DEF Sends
<1>8. \A j, d : m = [command |-> j, c |-> d] <=> j = k /\ d = c
  BY DEF m
<1>9. ~Sends(batch, k, c)' /\ ~Sends(ctrl, k, c)' /\ Sends(batch, k, c)
  BY <1>5, <1>6, <1>7, <1>8 DEF Sends, m
<1>10. \A j, d : Sends(ctrl, j, d)' <=> Sends(ctrl, j, d)
  BY DEF Sends
<1> QED
  BY <1>4, <1>7, <1>8, <1>9, <1>10 DEF OnWay

-----------------------------------------------------------------------------
(* The steps of the main loop.                                               *)

LEMMA AcceptClientKeeps ==
    ASSUME IInv, NEW c \in Channel, AcceptClient(c)
    PROVE  IInv'
<1> USE NoneAssumption, WritesAssumption
    DEF Typed, mainVars, workVars, Loop, Stage, Handle, NoFetch
<1>1. Pipe' /\ (\A k, d : OnWay(k, d)' <=> OnWay(k, d)) /\ StopIsSent'
  BY PipeStays DEF IInv, StopIsSent, AcceptClient
<1>2. Typed'
  BY <1>1 DEF IInv, Typed, AcceptClient, MallocChannel
<1>3. Counted'
  BY <1>1
     DEF IInv, Attached, Bound, Count, Counted, Fetched, Greeted, AcceptClient,
         MallocChannel
<1>4. Greeted'
  BY <1>1 DEF IInv, Bound, Count, Counted, Greeted, AcceptClient, MallocChannel
<1>5. Bound'
  BY <1>1 DEF IInv, Attached, Bound, Count, Counted, Greeted, AcceptClient, MallocChannel
<1>6. Attached'
  BY <1>1 DEF IInv, Attached, Bound, Fetched, AcceptClient, MallocChannel
<1>7. Fetched'
  BY <1>1 DEF IInv, Attached, Count, Counted, Fetched, AcceptClient, MallocChannel
<1>8. Detached'
  BY <1>1
     DEF IInv, Attached, Bound, Count, Counted, Detached, Fetched, Greeted, AcceptClient,
         MallocChannel
<1> QED
  BY <1>1, <1>2, <1>3, <1>4, <1>5, <1>6, <1>7, <1>8 DEF IInv

LEMMA MainWriteDoneKeeps ==
    ASSUME IInv, NEW c \in Channel, NEW ok \in BOOLEAN, MainWriteDone(c, ok)
    PROVE  IInv'
<1> USE NoneAssumption, WritesAssumption
    DEF Typed, mainVars, workVars, Loop, Stage, Handle, NoFetch
<1>1. Pipe' /\ (\A k, d : OnWay(k, d)' <=> OnWay(k, d)) /\ StopIsSent'
  BY PipeStays DEF IInv, StopIsSent, MainWriteDone
<1>2. Typed'
  BY <1>1 DEF IInv, Typed, MainWriteDone, FreeChannel
<1>3. Counted'
  BY <1>1
     DEF IInv, Attached, Bound, Count, Counted, Fetched, Greeted, MainWriteDone,
         FreeChannel
<1>4. Greeted'
  BY <1>1 DEF IInv, Bound, Count, Counted, Greeted, MainWriteDone, FreeChannel
<1>5. Bound'
  BY <1>1 DEF IInv, Attached, Bound, Count, Counted, Greeted, MainWriteDone, FreeChannel
<1>6. Attached'
  BY <1>1 DEF IInv, Attached, Bound, Fetched, MainWriteDone, FreeChannel
<1>7. Fetched'
  BY <1>1 DEF IInv, Attached, Count, Counted, Fetched, MainWriteDone, FreeChannel
<1>8. Detached'
  BY <1>1
     DEF IInv, Attached, Bound, Count, Counted, Detached, Fetched, Greeted, MainWriteDone,
         FreeChannel
<1> QED
  BY <1>1, <1>2, <1>3, <1>4, <1>5, <1>6, <1>7, <1>8 DEF IInv

LEMMA HWorkClosedKeeps ==
    ASSUME IInv, NEW c \in Channel, HWorkClosed(c)
    PROVE  IInv'
<1> USE NoneAssumption, WritesAssumption
    DEF Typed, mainVars, workVars, Loop, Stage, Handle, NoFetch
<1>1. Pipe' /\ (\A k, d : OnWay(k, d)' <=> OnWay(k, d)) /\ StopIsSent'
  BY PipeStays DEF IInv, StopIsSent, HWorkClosed
<1>2. Typed'
  BY <1>1 DEF IInv, Typed, HWorkClosed
<1>3. Counted'
  BY <1>1 DEF IInv, Attached, Bound, Count, Counted, Fetched, Greeted, HWorkClosed
<1>4. Greeted'
  BY <1>1 DEF IInv, Bound, Count, Counted, Greeted, HWorkClosed
<1>5. Bound'
  BY <1>1 DEF IInv, Attached, Bound, Count, Counted, Greeted, HWorkClosed
<1>6. Attached'
  BY <1>1 DEF IInv, Attached, Bound, Fetched, HWorkClosed
<1>7. Fetched'
  BY <1>1 DEF IInv, Attached, Count, Counted, Fetched, HWorkClosed
<1>8. Detached'
  BY <1>1 DEF IInv, Attached, Bound, Count, Counted, Detached, Fetched, Greeted, HWorkClosed
<1> QED
  BY <1>1, <1>2, <1>3, <1>4, <1>5, <1>6, <1>7, <1>8 DEF IInv

LEMMA ReadMainKeeps ==
    ASSUME IInv, NEW c \in Channel, NEW eof \in BOOLEAN, ReadMain(c, eof)
    PROVE  IInv'
<1> USE NoneAssumption, WritesAssumption
    DEF Typed, mainVars, workVars, Loop, Stage, Handle, NoFetch
<1>1. Pipe' /\ (\A k, d : OnWay(k, d)' <=> OnWay(k, d)) /\ StopIsSent'
  BY PipeStays DEF IInv, StopIsSent, ReadMain
<1>2. Typed'
  BY <1>1 DEF IInv, Typed, ReadMain, FreeChannel
<1>3. Counted'
  BY <1>1 DEF IInv, Attached, Bound, Count, Counted, Fetched, Greeted, ReadMain, FreeChannel
<1>4. Greeted'
  BY <1>1 DEF IInv, Bound, Count, Counted, Greeted, ReadMain, FreeChannel
<1>5. Bound'
  BY <1>1 DEF IInv, Attached, Bound, Count, Counted, Greeted, ReadMain, FreeChannel
<1>6. Attached'
  BY <1>1 DEF IInv, Attached, Bound, Fetched, ReadMain, FreeChannel
<1>7. Fetched'
  BY <1>1 DEF IInv, Attached, Count, Counted, Fetched, ReadMain, FreeChannel
<1>8. Detached'
  BY <1>1
     DEF IInv, Attached, Bound, Count, Counted, Detached, Fetched, Greeted, ReadMain,
         FreeChannel
<1> QED
  BY <1>1, <1>2, <1>3, <1>4, <1>5, <1>6, <1>7, <1>8 DEF IInv

LEMMA NewConnectTryKeeps ==
    ASSUME IInv, NEW c \in Channel, NewConnectTry(c)
    PROVE  IInv'
<1> USE NoneAssumption, WritesAssumption
    DEF Typed, mainVars, workVars, Loop, Stage, Handle, NoFetch
<1>1. Pipe' /\ (\A k, d : OnWay(k, d)' <=> OnWay(k, d)) /\ StopIsSent'
  BY PipeStays DEF IInv, StopIsSent, NewConnectTry
<1>2. Typed'
  BY <1>1 DEF IInv, Typed, NewConnectTry
<1>3. Counted'
  BY <1>1 DEF IInv, Attached, Bound, Count, Counted, Fetched, Greeted, NewConnectTry
<1>4. Greeted'
  BY <1>1 DEF IInv, Bound, Count, Counted, Greeted, NewConnectTry
<1>5. Bound'
  BY <1>1 DEF IInv, Attached, Bound, Count, Counted, Greeted, NewConnectTry
<1>6. Attached'
  BY <1>1 DEF IInv, Attached, Bound, Fetched, NewConnectTry
<1>7. Fetched'
  BY <1>1 DEF IInv, Attached, Count, Counted, Fetched, NewConnectTry
<1>8. Detached'
  BY <1>1 DEF IInv, Attached, Bound, Count, Counted, Detached, Fetched, Greeted, NewConnectTry
<1> QED
  BY <1>1, <1>2, <1>3, <1>4, <1>5, <1>6, <1>7, <1>8 DEF IInv

LEMMA OrderConnecTargetResultKeeps ==
    ASSUME IInv, NEW c \in Channel, OrderConnecTargetResult(c)
    PROVE  IInv'
<1> USE NoneAssumption, WritesAssumption
    DEF Typed, mainVars, workVars, Loop, Stage, Handle, NoFetch
<1>1. Pipe' /\ (\A k, d : OnWay(k, d)' <=> OnWay(k, d)) /\ StopIsSent'
  BY PipeStays DEF IInv, StopIsSent, OrderConnecTargetResult
<1>2. Typed'
  BY <1>1 DEF IInv, Typed, OrderConnecTargetResult, FreeChannel
<1>3. Counted'
  BY <1>1
     DEF IInv, Attached, Bound, Count, Counted, Fetched, Greeted, OrderConnecTargetResult,
         FreeChannel
<1>4. Greeted'
  BY <1>1 DEF IInv, Bound, Count, Counted, Greeted, OrderConnecTargetResult, FreeChannel
<1>5. Bound'
  BY <1>1
     DEF IInv, Attached, Bound, Count, Counted, Greeted, OrderConnecTargetResult,
         FreeChannel
<1>6. Attached'
  BY <1>1 DEF IInv, Attached, Bound, Fetched, OrderConnecTargetResult, FreeChannel
<1>7. Fetched'
  BY <1>1 DEF IInv, Attached, Count, Counted, Fetched, OrderConnecTargetResult, FreeChannel
<1>8. Detached'
  BY <1>1
     DEF IInv, Attached, Bound, Count, Counted, Detached, Fetched, Greeted,
         OrderConnecTargetResult, FreeChannel
<1> QED
  BY <1>1, <1>2, <1>3, <1>4, <1>5, <1>6, <1>7, <1>8 DEF IInv

LEMMA BindChannelToSessionKeeps ==
    ASSUME IInv, NEW c \in Channel, BindChannelToSession(c)
    PROVE  IInv'
<1> USE NoneAssumption, WritesAssumption
    DEF Typed, mainVars, workVars, Loop, Stage, Handle, NoFetch
<1>1. Pipe' /\ (\A k, d : OnWay(k, d)' <=> OnWay(k, d)) /\ StopIsSent'
  BY PipeStays DEF IInv, StopIsSent, BindChannelToSession
<1>2. Typed'
  BY <1>1 DEF IInv, Typed, BindChannelToSession
<1>3. Counted'
  BY <1>1 DEF IInv, Attached, Bound, Count, Counted, Fetched, Greeted, BindChannelToSession
<1>4. Greeted'
  BY <1>1 DEF IInv, Bound, Count, Counted, Greeted, BindChannelToSession
<1>5. Bound'
  BY <1>1 DEF IInv, Attached, Bound, Count, Counted, Greeted, BindChannelToSession
<1>6. Attached'
  BY <1>1 DEF IInv, Attached, Bound, Fetched, BindChannelToSession
<1>7. Fetched'
  BY <1>1 DEF IInv, Attached, Count, Counted, Fetched, BindChannelToSession
<1>8. Detached'
  BY <1>1
     DEF IInv, Attached, Bound, Count, Counted, Detached, Fetched, Greeted,
         BindChannelToSession
<1> QED
  BY <1>1, <1>2, <1>3, <1>4, <1>5, <1>6, <1>7, <1>8 DEF IInv

LEMMA NextLoopKeeps ==
    ASSUME IInv, NEW c \in Channel, NextLoop(c)
    PROVE  IInv'
<1> USE NoneAssumption, WritesAssumption
    DEF Typed, mainVars, workVars, Loop, Stage, Handle, NoFetch
<1>1. /\ bind[c] = "next" /\ hWork[c] = "closed" /\ stage[c] = "open" /\ c \in Channel
      /\ ~OnWay("ATTACH", c) /\ [command |-> "ATTACH", c |-> c] \in Command /\ Pipe
  BY DEF NextLoop, IInv, Bound, Command
<1>2. /\ Pipe'
      /\ \A k, d : OnWay(k, d)' <=> OnWay(k, d) \/ (k = "ATTACH" /\ d = c /\ session = "up")
  BY <1>1, PipeGrows, PipeStays DEF NextLoop
<1>3. StopIsSent'
  BY <1>2 DEF IInv, StopIsSent, NextLoop
<1>4. bind' = [bind EXCEPT ![c] = IF session = "up" THEN "sent" ELSE "failed"]
  BY DEF NextLoop
<1>5. Typed'
  BY <1>1, <1>2, <1>3, <1>4 DEF IInv, Typed, NextLoop
<1>6. Counted'
  BY <1>1, <1>2, <1>3, <1>4
     DEF IInv, Attached, Bound, Count, Counted, Fetched, Greeted, NextLoop
<1>7. Greeted'
  BY <1>1, <1>2, <1>3, <1>4 DEF IInv, Bound, Count, Counted, Greeted, NextLoop
<1>8. Bound'
  BY <1>1, <1>2, <1>3, <1>4 DEF IInv, Attached, Bound, Count, Counted, Greeted, NextLoop
<1>9. Attached'
  BY <1>1, <1>2, <1>3, <1>4 DEF IInv, Attached, Bound, Fetched, NextLoop
<1>10. Fetched'
  BY <1>1, <1>2, <1>3, <1>4 DEF IInv, Attached, Count, Counted, Fetched, NextLoop
<1>11. Detached'
  BY <1>1, <1>2, <1>3, <1>4
     DEF IInv, Attached, Bound, Count, Counted, Detached, Fetched, Greeted, NextLoop
<1> QED
  BY <1>1, <1>2, <1>3, <1>4, <1>5, <1>6, <1>7, <1>8, <1>9, <1>10, <1>11 DEF IInv

LEMMA FreeChannelOpeateKeeps ==
    ASSUME IInv, NEW c \in Channel, FreeChannelOpeate(c)
    PROVE  IInv'
<1> USE NoneAssumption, WritesAssumption
    DEF Typed, mainVars, workVars, Loop, Stage, Handle, NoFetch
<1>1. /\ stage[c] = "refs" /\ ref[c] = 0 /\ hWork[c] # "closing" /\ c \in Channel
      /\ ~OnWay("DETACH", c) /\ [command |-> "DETACH", c |-> c] \in Command /\ Pipe
  BY DEF FreeChannelOpeate, IInv, Detached, Command
<1>2. /\ Pipe'
      /\ \A k, d : OnWay(k, d)' <=> \/ OnWay(k, d)
                                    \/ k = "DETACH" /\ d = c /\ session = "up" /\ hChild[c] # "null"
  BY <1>1, PipeGrows, PipeStays DEF FreeChannelOpeate, workVars
<1>3. StopIsSent'
  BY <1>2 DEF IInv, StopIsSent, FreeChannelOpeate
\* With no reference left nobody writes to the channel or handles a packet of it.
<1>4. c \notin mainWrite /\ fetch.c # c /\ writes[c] = 0
  BY <1>1 DEF IInv, Counted, Count
<1>5. /\ hChild[c] # "null" => ~OnWay("ATTACH", c)
      /\ bind[c] # "next" /\ ~OnWay("ATTACH", c)
  BY <1>1 DEF IInv, Bound
<1>6. Typed' /\ hChild' = hChild /\ writes' = writes /\ task' = task /\ fetch' = fetch
      /\ bind' = bind /\ ref' = ref /\ mainWrite' = mainWrite /\ trying' = trying
      /\ clearing' = clearing /\ session' = session /\ asyncFree' = asyncFree /\ forward' = forward
  BY <1>1, ZenonT(30) DEF IInv, Typed, FreeChannelOpeate, Continue
<1>7. CASE hChild[c] = "null"
  <2>1. /\ stage' = [stage EXCEPT ![c] = "handles"] /\ childCleared' = childCleared
        /\ hWork' = [hWork EXCEPT ![c] = IF @ = "open" THEN "closing" ELSE @]
        /\ \A k, d : OnWay(k, d)' <=> OnWay(k, d)
    BY <1>2, <1>7 DEF FreeChannelOpeate, Continue
  <2>2. Counted'
    BY <1>1, <1>5, <1>6, <2>1 DEF IInv, Counted, Count
  <2>3. Greeted'
    BY <1>1, <1>4, <1>6, <2>1 DEF IInv, Greeted
  <2>4. Bound'
    BY <1>1, <1>5, <1>6, <2>1 DEF IInv, Bound
  <2>5. Attached' /\ Fetched'
    BY <1>4, <1>6, <2>1 DEF IInv, Attached, Fetched
  <2>6. Detached'
    BY <1>1, <1>4, <1>6, <1>7, <2>1 DEF IInv, Detached, Attached
  <2> QED
    BY <1>2, <1>3, <1>6, <2>2, <2>3, <2>4, <2>5, <2>6 DEF IInv
<1>8. CASE hChild[c] # "null"
  <2>1. /\ stage' = [stage EXCEPT ![c] = "child"] /\ hWork' = hWork
        /\ \A k, d : OnWay(k, d)' <=> OnWay(k, d) \/ (k = "DETACH" /\ d = c /\ session = "up")
        /\ IF session = "up" THEN childCleared' = childCleared
           ELSE childCleared' = [childCleared EXCEPT ![c] = TRUE]
    BY <1>2, <1>8 DEF FreeChannelOpeate
  <2>2. Counted'
    BY <1>6, <2>1 DEF IInv, Counted, Count
  <2>3. Greeted'
    BY <1>1, <1>4, <1>6, <2>1 DEF IInv, Greeted
  <2>4. Bound'
    BY <1>1, <1>5, <1>6, <2>1 DEF IInv, Bound
  <2>5. Attached' /\ Fetched'
    BY <1>4, <1>6, <2>1 DEF IInv, Attached, Fetched
  <2>6. Detached'
    <3> SUFFICES ASSUME NEW d \in Channel
                 PROVE  /\ stage'[d] \in {"none", "open", "refs"} =>
                              /\ ~childCleared'[d] /\ clearing'[d] = "no"
                              /\ ~OnWay("DETACH", d)'
                        /\ stage'[d] \in {"child", "handles", "gone"} => writes'[d] = 0
                        /\ OnWay("DETACH", d)' =>
                              /\ stage'[d] = "child" /\ ~childCleared'[d]
                              /\ clearing'[d] = "no" /\ hChild'[d] # "null"
                        /\ clearing'[d] # "no" =>
                              /\ stage'[d] = "child" /\ ~childCleared'[d] /\ d \notin task'
                              /\ hChild'[d] \in {"closing", "closed"}
                        /\ childCleared'[d] /\ session' = "up" =>
                              hChild'[d] = "closed" /\ d \notin task'
                        /\ stage'[d] \in {"handles", "gone"} =>
                              hChild'[d] = "null" \/ childCleared'[d]
      BY DEF Detached
    <3>1. CASE d = c
      BY <1>1, <1>4, <1>6, <1>8, <2>1, <3>1 DEF IInv, Detached
    <3>2. CASE d # c
      BY <1>6, <2>1, <3>2 DEF IInv, Detached
    <3> QED
      BY <3>1, <3>2
  <2> QED
    BY <1>2, <1>3, <1>6, <2>2, <2>3, <2>4, <2>5, <2>6 DEF IInv
<1> QED
  BY <1>7, <1>8

LEMMA FreeChannelContinueKeeps ==
    ASSUME IInv, NEW c \in Channel, FreeChannelContinue(c)
    PROVE  IInv'
<1> USE NoneAssumption, WritesAssumption
    DEF Typed, mainVars, workVars, Loop, Stage, Handle, NoFetch
<1>1. Pipe' /\ (\A k, d : OnWay(k, d)' <=> OnWay(k, d)) /\ StopIsSent'
  BY PipeStays DEF IInv, StopIsSent, FreeChannelContinue
<1>2. Typed'
  BY <1>1 DEF IInv, Typed, FreeChannelContinue, Continue
<1>3. Counted'
  BY <1>1
     DEF IInv, Attached, Bound, Count, Counted, Fetched, Greeted, FreeChannelContinue,
         Continue
<1>4. Greeted'
  BY <1>1 DEF IInv, Bound, Count, Counted, Greeted, FreeChannelContinue, Continue
<1>5. Bound'
  BY <1>1 DEF IInv, Attached, Bound, Count, Counted, Greeted, FreeChannelContinue, Continue
<1>6. Attached'
  BY <1>1 DEF IInv, Attached, Bound, Fetched, FreeChannelContinue, Continue
<1>7. Fetched'
  BY <1>1 DEF IInv, Attached, Count, Counted, Fetched, FreeChannelContinue, Continue
<1>8. Detached'
  BY <1>1
     DEF IInv, Attached, Bound, Count, Counted, Detached, Fetched, Greeted,
         FreeChannelContinue, Continue
<1> QED
  BY <1>1, <1>2, <1>3, <1>4, <1>5, <1>6, <1>7, <1>8 DEF IInv

LEMMA FreeChannelFinallyKeeps ==
    ASSUME IInv, NEW c \in Channel, FreeChannelFinally(c)
    PROVE  IInv'
<1> USE NoneAssumption, WritesAssumption
    DEF Typed, mainVars, workVars, Loop, Stage, Handle, NoFetch
<1>1. Pipe' /\ (\A k, d : OnWay(k, d)' <=> OnWay(k, d)) /\ StopIsSent'
  BY PipeStays DEF IInv, StopIsSent, FreeChannelFinally
<1>2. Typed'
  BY <1>1 DEF IInv, Typed, FreeChannelFinally
<1>3. Counted'
  BY <1>1 DEF IInv, Attached, Bound, Count, Counted, Fetched, Greeted, FreeChannelFinally
<1>4. Greeted'
  BY <1>1 DEF IInv, Bound, Count, Counted, Greeted, FreeChannelFinally
<1>5. Bound'
  BY <1>1 DEF IInv, Attached, Bound, Count, Counted, Greeted, FreeChannelFinally
<1>6. Attached'
  BY <1>1 DEF IInv, Attached, Bound, Fetched, FreeChannelFinally
<1>7. Fetched'
  BY <1>1 DEF IInv, Attached, Count, Counted, Fetched, FreeChannelFinally
<1>8. Detached'
  BY <1>1
     DEF IInv, Attached, Bound, Count, Counted, Detached, Fetched, Greeted,
         FreeChannelFinally
<1> QED
  BY <1>1, <1>2, <1>3, <1>4, <1>5, <1>6, <1>7, <1>8 DEF IInv

LEMMA AsyncFreeKeeps ==
    ASSUME IInv, NEW c \in Channel, AsyncFree(c)
    PROVE  IInv'
<1> USE NoneAssumption, WritesAssumption
    DEF Typed, mainVars, workVars, Loop, Stage, Handle, NoFetch
<1>1. Pipe' /\ (\A k, d : OnWay(k, d)' <=> OnWay(k, d)) /\ StopIsSent'
  BY PipeStays DEF IInv, StopIsSent, AsyncFree
<1>2. Typed'
  BY <1>1 DEF IInv, Typed, AsyncFree, FreeChannel
<1>3. Counted'
  BY <1>1 DEF IInv, Attached, Bound, Count, Counted, Fetched, Greeted, AsyncFree, FreeChannel
<1>4. Greeted'
  BY <1>1 DEF IInv, Bound, Count, Counted, Greeted, AsyncFree, FreeChannel
<1>5. Bound'
  BY <1>1 DEF IInv, Attached, Bound, Count, Counted, Greeted, AsyncFree, FreeChannel
<1>6. Attached'
  BY <1>1 DEF IInv, Attached, Bound, Fetched, AsyncFree, FreeChannel
<1>7. Fetched'
  BY <1>1 DEF IInv, Attached, Count, Counted, Fetched, AsyncFree, FreeChannel
<1>8. Detached'
  BY <1>1
     DEF IInv, Attached, Bound, Count, Counted, Detached, Fetched, Greeted, AsyncFree,
         FreeChannel
<1> QED
  BY <1>1, <1>2, <1>3, <1>4, <1>5, <1>6, <1>7, <1>8 DEF IInv

LEMMA RemoveFportkeyKeeps ==
    ASSUME IInv, NEW c \in Channel, RemoveFportkey(c)
    PROVE  IInv'
<1> USE NoneAssumption, WritesAssumption
    DEF Typed, mainVars, workVars, Loop, Stage, Handle, NoFetch
<1>1. Pipe' /\ (\A k, d : OnWay(k, d)' <=> OnWay(k, d)) /\ StopIsSent'
  BY PipeStays DEF IInv, StopIsSent, RemoveFportkey
<1>2. Typed'
  BY <1>1 DEF IInv, Typed, RemoveFportkey, FreeChannel
<1>3. Counted'
  BY <1>1
     DEF IInv, Attached, Bound, Count, Counted, Fetched, Greeted, RemoveFportkey,
         FreeChannel
<1>4. Greeted'
  BY <1>1 DEF IInv, Bound, Count, Counted, Greeted, RemoveFportkey, FreeChannel
<1>5. Bound'
  BY <1>1 DEF IInv, Attached, Bound, Count, Counted, Greeted, RemoveFportkey, FreeChannel
<1>6. Attached'
  BY <1>1 DEF IInv, Attached, Bound, Fetched, RemoveFportkey, FreeChannel
<1>7. Fetched'
  BY <1>1 DEF IInv, Attached, Count, Counted, Fetched, RemoveFportkey, FreeChannel
<1>8. Detached'
  BY <1>1
     DEF IInv, Attached, Bound, Count, Counted, Detached, Fetched, Greeted,
         RemoveFportkey, FreeChannel
<1> QED
  BY <1>1, <1>2, <1>3, <1>4, <1>5, <1>6, <1>7, <1>8 DEF IInv

LEMMA SessionDiesKeeps ==
    ASSUME IInv, SessionDies
    PROVE  IInv'
<1> USE NoneAssumption, WritesAssumption
    DEF Typed, mainVars, workVars, Loop, Stage, Handle, NoFetch
<1>1. Pipe' /\ (\A k, d : OnWay(k, d)' <=> OnWay(k, d)) /\ StopIsSent'
  BY PipeStays DEF IInv, StopIsSent, SessionDies
<1>2. Typed'
  BY <1>1 DEF IInv, Typed, SessionDies
<1>3. Counted'
  BY <1>1 DEF IInv, Attached, Bound, Count, Counted, Fetched, Greeted, SessionDies
<1>4. Greeted'
  BY <1>1 DEF IInv, Bound, Count, Counted, Greeted, SessionDies
<1>5. Bound'
  BY <1>1 DEF IInv, Attached, Bound, Count, Counted, Greeted, SessionDies
<1>6. Attached'
  BY <1>1 DEF IInv, Attached, Bound, Fetched, SessionDies
<1>7. Fetched'
  BY <1>1 DEF IInv, Attached, Count, Counted, Fetched, SessionDies
<1>8. Detached'
  BY <1>1 DEF IInv, Attached, Bound, Count, Counted, Detached, Fetched, Greeted, SessionDies
<1> QED
  BY <1>1, <1>2, <1>3, <1>4, <1>5, <1>6, <1>7, <1>8 DEF IInv

LEMMA StopSessionKeeps ==
    ASSUME IInv, StopSession
    PROVE  IInv'
<1> USE NoneAssumption, WritesAssumption
    DEF Typed, mainVars, workVars, Loop, Stage, Handle, NoFetch
<1>1. /\ session = "dead" /\ ~OnWay("STOP", None) /\ Pipe
      /\ [command |-> "STOP", c |-> None] \in Command
  BY DEF StopSession, IInv, StopIsSent, Command
<1>2. /\ Pipe' /\ StopIsSent'
      /\ \A k, d : OnWay(k, d)' <=> OnWay(k, d) \/ (k = "STOP" /\ d = None)
  BY <1>1, PipeGrows DEF StopSession, StopIsSent, workVars
<1>3. Typed'
  BY <1>1, <1>2 DEF IInv, Typed, StopSession
<1>4. Counted'
  BY <1>1, <1>2 DEF IInv, Attached, Bound, Count, Counted, Fetched, Greeted, StopSession
<1>5. Greeted'
  BY <1>1, <1>2 DEF IInv, Bound, Count, Counted, Greeted, StopSession
<1>6. Bound'
  BY <1>1, <1>2 DEF IInv, Attached, Bound, Count, Counted, Greeted, StopSession
<1>7. Attached'
  BY <1>1, <1>2 DEF IInv, Attached, Bound, Fetched, StopSession
<1>8. Fetched'
  BY <1>1, <1>2 DEF IInv, Attached, Count, Counted, Fetched, StopSession
<1>9. Detached'
  BY <1>1, <1>2
     DEF IInv, Attached, Bound, Count, Counted, Detached, Fetched, Greeted, StopSession
<1> QED
  BY <1>1, <1>2, <1>3, <1>4, <1>5, <1>6, <1>7, <1>8, <1>9 DEF IInv

-----------------------------------------------------------------------------
(* The steps of the work thread.                                             *)

LEMMA ReadCtrlKeeps ==
    ASSUME IInv, ReadCtrl
    PROVE  IInv'
<1> USE NoneAssumption, WritesAssumption
    DEF Typed, mainVars, workVars, Loop, Stage, Handle, NoFetch
<1>1. Pipe' /\ (\A k, d : OnWay(k, d)' <=> OnWay(k, d)) /\ StopIsSent'
  BY PipeIsRead DEF IInv, StopIsSent, ReadCtrl, Turn
<1>2. Typed'
  BY <1>1 DEF IInv, Typed, ReadCtrl, Turn
<1>3. Counted'
  BY <1>1 DEF IInv, Attached, Bound, Count, Counted, Fetched, Greeted, ReadCtrl, Turn
<1>4. Greeted'
  BY <1>1 DEF IInv, Bound, Count, Counted, Greeted, ReadCtrl, Turn
<1>5. Bound'
  BY <1>1 DEF IInv, Attached, Bound, Count, Counted, Greeted, ReadCtrl, Turn
<1>6. Attached'
  BY <1>1 DEF IInv, Attached, Bound, Fetched, ReadCtrl, Turn
<1>7. Fetched'
  BY <1>1 DEF IInv, Attached, Count, Counted, Fetched, ReadCtrl, Turn
<1>8. Detached'
  BY <1>1 DEF IInv, Attached, Bound, Count, Counted, Detached, Fetched, Greeted, ReadCtrl, Turn
<1> QED
  BY <1>1, <1>2, <1>3, <1>4, <1>5, <1>6, <1>7, <1>8 DEF IInv

LEMMA DispatchAttachKeeps ==
    ASSUME IInv, NEW c \in Channel, DispatchAttach(c)
    PROVE  IInv'
<1> USE NoneAssumption, WritesAssumption
    DEF Typed, mainVars, workVars, Loop, Stage, Handle, NoFetch
<1>1. /\ Pipe' /\ OnWay("ATTACH", c) /\ ~OnWay("ATTACH", c)'
      /\ \A k, d : k # "ATTACH" \/ d # c => (OnWay(k, d)' <=> OnWay(k, d))
  BY PipeShrinks DEF IInv, DispatchAttach
<1>2. StopIsSent'
  BY <1>1 DEF IInv, StopIsSent, DispatchAttach
<1>3. Typed'
  BY <1>1, <1>2 DEF IInv, Typed, DispatchAttach, InMap
<1>4. Counted'
  BY <1>1, <1>2
     DEF IInv, Attached, Bound, Count, Counted, Fetched, Greeted, DispatchAttach, InMap
<1>5. Greeted'
  BY <1>1, <1>2 DEF IInv, Bound, Count, Counted, Greeted, DispatchAttach, InMap
<1>6. Bound'
  BY <1>1, <1>2 DEF IInv, Attached, Bound, Count, Counted, Greeted, DispatchAttach, InMap
<1>7. Attached'
  BY <1>1, <1>2 DEF IInv, Attached, Bound, Fetched, DispatchAttach, InMap
<1>8. Fetched'
  BY <1>1, <1>2 DEF IInv, Attached, Count, Counted, Fetched, DispatchAttach, InMap
<1>9. Detached'
  BY <1>1, <1>2
     DEF IInv, Attached, Bound, Count, Counted, Detached, Fetched, Greeted,
         DispatchAttach, InMap
<1> QED
  BY <1>1, <1>2, <1>3, <1>4, <1>5, <1>6, <1>7, <1>8, <1>9 DEF IInv

LEMMA DispatchDetachKeeps ==
    ASSUME IInv, NEW c \in Channel, DispatchDetach(c)
    PROVE  IInv'
<1> USE NoneAssumption, WritesAssumption
    DEF Typed, mainVars, workVars, Loop, Stage, Handle, NoFetch
<1>1. /\ Pipe' /\ OnWay("DETACH", c) /\ ~OnWay("DETACH", c)'
      /\ \A k, d : k # "DETACH" \/ d # c => (OnWay(k, d)' <=> OnWay(k, d))
  BY PipeShrinks DEF IInv, DispatchDetach
<1>2. StopIsSent'
  BY <1>1 DEF IInv, StopIsSent, DispatchDetach
<1>3. Typed'
  BY <1>1, <1>2 DEF IInv, Typed, DispatchDetach, InMap
<1>4. Counted'
  BY <1>1, <1>2
     DEF IInv, Attached, Bound, Count, Counted, Fetched, Greeted, DispatchDetach, InMap
<1>5. Greeted'
  BY <1>1, <1>2 DEF IInv, Bound, Count, Counted, Greeted, DispatchDetach, InMap
<1>6. Bound'
  BY <1>1, <1>2 DEF IInv, Attached, Bound, Count, Counted, Greeted, DispatchDetach, InMap
<1>7. Attached'
  <2>1. hChild[c] # "null"
    BY <1>1 DEF IInv, Detached
  <2> QED
    BY <1>1, <2>1 DEF IInv, Attached, DispatchDetach, InMap
<1>8. Fetched'
  BY <1>1, <1>2 DEF IInv, Attached, Count, Counted, Fetched, DispatchDetach, InMap
<1>9. Detached'
  BY <1>1, <1>2
     DEF IInv, Attached, Bound, Count, Counted, Detached, Fetched, Greeted,
         DispatchDetach, InMap
<1> QED
  BY <1>1, <1>2, <1>3, <1>4, <1>5, <1>6, <1>7, <1>8, <1>9 DEF IInv

LEMMA DispatchStopKeeps ==
    ASSUME IInv, DispatchStop
    PROVE  IInv'
<1> USE NoneAssumption, WritesAssumption
    DEF Typed, mainVars, workVars, Loop, Stage, Handle, NoFetch
<1>1. /\ Pipe' /\ OnWay("STOP", None) /\ ~OnWay("STOP", None)'
      /\ \A k, d : k # "STOP" \/ d # None => (OnWay(k, d)' <=> OnWay(k, d))
  BY PipeShrinks DEF IInv, DispatchStop
<1>2. StopIsSent'
  BY <1>1 DEF IInv, StopIsSent, DispatchStop
<1>3. Typed'
  BY <1>1, <1>2 DEF IInv, Typed, DispatchStop
<1>4. Counted'
  BY <1>1, <1>2 DEF IInv, Attached, Bound, Count, Counted, Fetched, Greeted, DispatchStop
<1>5. Greeted'
  BY <1>1, <1>2 DEF IInv, Bound, Count, Counted, Greeted, DispatchStop
<1>6. Bound'
  BY <1>1, <1>2 DEF IInv, Attached, Bound, Count, Counted, Greeted, DispatchStop
<1>7. Attached'
  BY <1>1, <1>2 DEF IInv, Attached, Bound, Fetched, DispatchStop
<1>8. Fetched'
  BY <1>1, <1>2 DEF IInv, Attached, Count, Counted, Fetched, DispatchStop
<1>9. Detached'
  BY <1>1, <1>2
     DEF IInv, Attached, Bound, Count, Counted, Detached, Fetched, Greeted, DispatchStop
<1> QED
  BY <1>1, <1>2, <1>3, <1>4, <1>5, <1>6, <1>7, <1>8, <1>9 DEF IInv

LEMMA ClearStartsKeeps ==
    ASSUME IInv, ClearStarts
    PROVE  IInv'
<1> USE NoneAssumption, WritesAssumption
    DEF Typed, mainVars, workVars, Loop, Stage, Handle, NoFetch
<1>1. Pipe' /\ (\A k, d : OnWay(k, d)' <=> OnWay(k, d)) /\ StopIsSent'
  BY PipeStays DEF IInv, StopIsSent, ClearStarts, Turn
<1>2. Typed'
  BY <1>1 DEF IInv, Typed, ClearStarts, Turn
<1>3. Counted'
  BY <1>1 DEF IInv, Attached, Bound, Count, Counted, Fetched, Greeted, ClearStarts, Turn
<1>4. Greeted'
  BY <1>1 DEF IInv, Bound, Count, Counted, Greeted, ClearStarts, Turn
<1>5. Bound'
  BY <1>1 DEF IInv, Attached, Bound, Count, Counted, Greeted, ClearStarts, Turn
<1>6. Attached'
  BY <1>1 DEF IInv, Attached, Bound, Fetched, ClearStarts, Turn
<1>7. Fetched'
  BY <1>1 DEF IInv, Attached, Count, Counted, Fetched, ClearStarts, Turn
<1>8. Detached'
  BY <1>1
     DEF IInv, Attached, Bound, Count, Counted, Detached, Fetched, Greeted, ClearStarts,
         Turn
<1> QED
  BY <1>1, <1>2, <1>3, <1>4, <1>5, <1>6, <1>7, <1>8 DEF IInv

LEMMA ClearEndsKeeps ==
    ASSUME IInv, ClearEnds
    PROVE  IInv'
<1> USE NoneAssumption, WritesAssumption
    DEF Typed, mainVars, workVars, Loop, Stage, Handle, NoFetch
<1>1. Pipe' /\ (\A k, d : OnWay(k, d)' <=> OnWay(k, d)) /\ StopIsSent'
  BY PipeStays DEF IInv, StopIsSent, ClearEnds, Turn
<1>2. Typed'
  BY <1>1 DEF IInv, Typed, ClearEnds, Turn
<1>3. Counted'
  BY <1>1 DEF IInv, Attached, Bound, Count, Counted, Fetched, Greeted, ClearEnds, Turn
<1>4. Greeted'
  BY <1>1 DEF IInv, Bound, Count, Counted, Greeted, ClearEnds, Turn
<1>5. Bound'
  BY <1>1 DEF IInv, Attached, Bound, Count, Counted, Greeted, ClearEnds, Turn
<1>6. Attached'
  BY <1>1 DEF IInv, Attached, Bound, Fetched, ClearEnds, Turn
<1>7. Fetched'
  BY <1>1 DEF IInv, Attached, Count, Counted, Fetched, ClearEnds, Turn
<1>8. Detached'
  BY <1>1
     DEF IInv, Attached, Bound, Count, Counted, Detached, Fetched, Greeted, ClearEnds,
         Turn
<1> QED
  BY <1>1, <1>2, <1>3, <1>4, <1>5, <1>6, <1>7, <1>8 DEF IInv

LEMMA ThreadEndsKeeps ==
    ASSUME IInv, ThreadEnds
    PROVE  IInv'
<1> USE NoneAssumption, WritesAssumption
    DEF Typed, mainVars, workVars, Loop, Stage, Handle, NoFetch
<1>1. Pipe' /\ (\A k, d : OnWay(k, d)' <=> OnWay(k, d)) /\ StopIsSent'
  BY PipeStays DEF IInv, StopIsSent, ThreadEnds, Turn
<1>2. Typed'
  BY <1>1 DEF IInv, Typed, ThreadEnds, Turn
<1>3. Counted'
  BY <1>1 DEF IInv, Attached, Bound, Count, Counted, Fetched, Greeted, ThreadEnds, Turn
<1>4. Greeted'
  BY <1>1 DEF IInv, Bound, Count, Counted, Greeted, ThreadEnds, Turn
<1>5. Bound'
  BY <1>1 DEF IInv, Attached, Bound, Count, Counted, Greeted, ThreadEnds, Turn
<1>6. Attached'
  BY <1>1 DEF IInv, Attached, Bound, Fetched, ThreadEnds, Turn
<1>7. Fetched'
  BY <1>1 DEF IInv, Attached, Count, Counted, Fetched, ThreadEnds, Turn
<1>8. Detached'
  BY <1>1
     DEF IInv, Attached, Bound, Count, Counted, Detached, Fetched, Greeted, ThreadEnds,
         Turn
<1> QED
  BY <1>1, <1>2, <1>3, <1>4, <1>5, <1>6, <1>7, <1>8 DEF IInv

LEMMA ReadEofKeeps ==
    ASSUME IInv, NEW c \in Channel, ReadEof(c)
    PROVE  IInv'
<1> USE NoneAssumption, WritesAssumption
    DEF Typed, mainVars, workVars, Loop, Stage, Handle, NoFetch
<1>1. Pipe' /\ (\A k, d : OnWay(k, d)' <=> OnWay(k, d)) /\ StopIsSent'
  BY PipeStays DEF IInv, StopIsSent, ReadEof, Turn
<1>2. Typed'
  BY <1>1 DEF IInv, Typed, ReadEof, Reads, Turn
<1>3. Counted'
  BY <1>1 DEF IInv, Attached, Bound, Count, Counted, Fetched, Greeted, ReadEof, Reads, Turn
<1>4. Greeted'
  BY <1>1 DEF IInv, Bound, Count, Counted, Greeted, ReadEof, Reads, Turn
<1>5. Bound'
  BY <1>1 DEF IInv, Attached, Bound, Count, Counted, Greeted, ReadEof, Reads, Turn
<1>6. Attached'
  BY <1>1 DEF IInv, Attached, Bound, Fetched, ReadEof, Reads, Turn
<1>7. Fetched'
  BY <1>1 DEF IInv, Attached, Count, Counted, Fetched, ReadEof, Reads, Turn
<1>8. Detached'
  BY <1>1
     DEF IInv, Attached, Bound, Count, Counted, Detached, Fetched, Greeted, ReadEof,
         Reads, Turn
<1> QED
  BY <1>1, <1>2, <1>3, <1>4, <1>5, <1>6, <1>7, <1>8 DEF IInv

LEMMA ReadCommandKeeps ==
    ASSUME IInv, NEW c \in Channel, ReadCommand(c)
    PROVE  IInv'
<1> USE NoneAssumption, WritesAssumption
    DEF Typed, mainVars, workVars, Loop, Stage, Handle, NoFetch
<1>1. Pipe' /\ (\A k, d : OnWay(k, d)' <=> OnWay(k, d)) /\ StopIsSent'
  BY PipeStays DEF IInv, StopIsSent, ReadCommand, Turn
<1>2. Typed'
  BY <1>1 DEF IInv, Typed, ReadCommand, Reads, Turn
<1>3. Counted'
  BY <1>1 DEF IInv, Attached, Bound, Count, Counted, Fetched, Greeted, ReadCommand, Reads, Turn
<1>4. Greeted'
  BY <1>1 DEF IInv, Bound, Count, Counted, Greeted, ReadCommand, Reads, Turn
<1>5. Bound'
  BY <1>1 DEF IInv, Attached, Bound, Count, Counted, Greeted, ReadCommand, Reads, Turn
<1>6. Attached'
  BY <1>1 DEF IInv, Attached, Bound, Fetched, ReadCommand, Reads, Turn
<1>7. Fetched'
  BY <1>1 DEF IInv, Attached, Count, Counted, Fetched, ReadCommand, Reads, Turn
<1>8. Detached'
  BY <1>1
     DEF IInv, Attached, Bound, Count, Counted, Detached, Fetched, Greeted, ReadCommand,
         Reads, Turn
<1> QED
  BY <1>1, <1>2, <1>3, <1>4, <1>5, <1>6, <1>7, <1>8 DEF IInv

LEMMA FetchCommandKeeps ==
    ASSUME IInv, NEW c \in Channel, FetchCommand(c)
    PROVE  IInv'
<1> USE NoneAssumption, WritesAssumption
    DEF Typed, mainVars, workVars, Loop, Stage, Handle, NoFetch
<1>1. Pipe' /\ (\A k, d : OnWay(k, d)' <=> OnWay(k, d)) /\ StopIsSent'
  BY PipeStays DEF IInv, StopIsSent, FetchCommand, Turn
<1>2. Typed'
  BY <1>1 DEF IInv, Typed, FetchCommand, Turn, InMap
<1>3. /\ fetch.c = None /\ fetch'.c = c /\ UNCHANGED <<mainWrite, bind, hWork, writes>>
      /\ ref' = [ref EXCEPT ![c] = @ + 1] /\ None \notin Channel
  BY DEF FetchCommand, Turn
<1>4. Counted'
  BY <1>3 DEF IInv, Counted, Count
<1>5. Greeted'
  BY <1>1 DEF IInv, Bound, Count, Counted, Greeted, FetchCommand, Turn, InMap
<1>6. Bound'
  BY <1>1 DEF IInv, Attached, Bound, Count, Counted, Greeted, FetchCommand, Turn, InMap
<1>7. Attached'
  BY <1>1 DEF IInv, Attached, Bound, Fetched, FetchCommand, Turn, InMap
<1>8. Fetched'
  BY <1>1 DEF IInv, Attached, Count, Counted, Fetched, FetchCommand, Turn, InMap
<1>9. Detached'
  BY <1>1
     DEF IInv, Attached, Bound, Count, Counted, Detached, Fetched, Greeted, FetchCommand,
         Turn, InMap
<1> QED
  BY <1>1, <1>2, <1>4, <1>5, <1>6, <1>7, <1>8, <1>9 DEF IInv

LEMMA FetchNothingKeeps ==
    ASSUME IInv, NEW c \in Channel, FetchNothing(c)
    PROVE  IInv'
<1> USE NoneAssumption, WritesAssumption
    DEF Typed, mainVars, workVars, Loop, Stage, Handle, NoFetch
<1>1. Pipe' /\ (\A k, d : OnWay(k, d)' <=> OnWay(k, d)) /\ StopIsSent'
  BY PipeStays DEF IInv, StopIsSent, FetchNothing
<1>2. Typed'
  BY <1>1 DEF IInv, Typed, FetchNothing, FetchReturns
<1>3. Counted'
  BY <1>1
     DEF IInv, Attached, Bound, Count, Counted, Fetched, Greeted, FetchNothing,
         FetchReturns
<1>4. Greeted'
  BY <1>1 DEF IInv, Bound, Count, Counted, Greeted, FetchNothing, FetchReturns
<1>5. Bound'
  BY <1>1 DEF IInv, Attached, Bound, Count, Counted, Greeted, FetchNothing, FetchReturns
<1>6. Attached'
  BY <1>1 DEF IInv, Attached, Bound, Fetched, FetchNothing, FetchReturns
<1>7. Fetched'
  BY <1>1 DEF IInv, Attached, Count, Counted, Fetched, FetchNothing, FetchReturns
<1>8. Detached'
  BY <1>1
     DEF IInv, Attached, Bound, Count, Counted, Detached, Fetched, Greeted, FetchNothing,
         FetchReturns
<1> QED
  BY <1>1, <1>2, <1>3, <1>4, <1>5, <1>6, <1>7, <1>8 DEF IInv

LEMMA FetchEchoKeeps ==
    ASSUME IInv, NEW c \in Channel, FetchEcho(c)
    PROVE  IInv'
<1> USE NoneAssumption, WritesAssumption
    DEF Typed, mainVars, workVars, Loop, Stage, Handle, NoFetch
<1>1. Pipe' /\ (\A k, d : OnWay(k, d)' <=> OnWay(k, d)) /\ StopIsSent'
  BY PipeStays DEF IInv, StopIsSent, FetchEcho
<1>2. Typed'
  BY <1>1 DEF IInv, Typed, FetchEcho, FetchReturns
<1>3. Counted'
  BY <1>1 DEF IInv, Attached, Bound, Count, Counted, Fetched, Greeted, FetchEcho, FetchReturns
<1>4. Greeted'
  BY <1>1 DEF IInv, Bound, Count, Counted, Greeted, FetchEcho, FetchReturns
<1>5. Bound'
  BY <1>1 DEF IInv, Attached, Bound, Count, Counted, Greeted, FetchEcho, FetchReturns
<1>6. Attached'
  BY <1>1 DEF IInv, Attached, Bound, Fetched, FetchEcho, FetchReturns
<1>7. Fetched'
  BY <1>1 DEF IInv, Attached, Count, Counted, Fetched, FetchEcho, FetchReturns
<1>8. Detached'
  BY <1>1
     DEF IInv, Attached, Bound, Count, Counted, Detached, Fetched, Greeted, FetchEcho,
         FetchReturns
<1> QED
  BY <1>1, <1>2, <1>3, <1>4, <1>5, <1>6, <1>7, <1>8 DEF IInv

LEMMA FetchCloseKeeps ==
    ASSUME IInv, NEW c \in Channel, FetchClose(c)
    PROVE  IInv'
<1> USE NoneAssumption, WritesAssumption
    DEF Typed, mainVars, workVars, Loop, Stage, Handle, NoFetch
<1>1. Pipe' /\ (\A k, d : OnWay(k, d)' <=> OnWay(k, d)) /\ StopIsSent'
  BY PipeStays DEF IInv, StopIsSent, FetchClose
<1>2. Typed'
  BY <1>1 DEF IInv, Typed, FetchClose, FetchReturns
<1>3. Counted'
  BY <1>1 DEF IInv, Attached, Bound, Count, Counted, Fetched, Greeted, FetchClose, FetchReturns
<1>4. Greeted'
  BY <1>1 DEF IInv, Bound, Count, Counted, Greeted, FetchClose, FetchReturns
<1>5. Bound'
  BY <1>1 DEF IInv, Attached, Bound, Count, Counted, Greeted, FetchClose, FetchReturns
<1>6. Attached'
  BY <1>1 DEF IInv, Attached, Bound, Fetched, FetchClose, FetchReturns
<1>7. Fetched'
  BY <1>1 DEF IInv, Attached, Count, Counted, Fetched, FetchClose, FetchReturns
<1>8. Detached'
  BY <1>1
     DEF IInv, Attached, Bound, Count, Counted, Detached, Fetched, Greeted, FetchClose,
         FetchReturns
<1> QED
  BY <1>1, <1>2, <1>3, <1>4, <1>5, <1>6, <1>7, <1>8 DEF IInv

LEMMA FetchForwardKeeps ==
    ASSUME IInv, NEW c \in Channel, FetchForward(c)
    PROVE  IInv'
<1> USE NoneAssumption, WritesAssumption
    DEF Typed, mainVars, workVars, Loop, Stage, Handle, NoFetch
<1>1. Pipe' /\ (\A k, d : OnWay(k, d)' <=> OnWay(k, d)) /\ StopIsSent'
  BY PipeStays DEF IInv, StopIsSent, FetchForward
<1>2. Typed'
  BY <1>1 DEF IInv, Typed, FetchForward, FetchReturns
<1>3. Counted'
  BY <1>1
     DEF IInv, Attached, Bound, Count, Counted, Fetched, Greeted, FetchForward,
         FetchReturns
<1>4. Greeted'
  BY <1>1 DEF IInv, Bound, Count, Counted, Greeted, FetchForward, FetchReturns
<1>5. Bound'
  BY <1>1 DEF IInv, Attached, Bound, Count, Counted, Greeted, FetchForward, FetchReturns
<1>6. Attached'
  BY <1>1 DEF IInv, Attached, Bound, Fetched, FetchForward, FetchReturns
<1>7. Fetched'
  BY <1>1 DEF IInv, Attached, Count, Counted, Fetched, FetchForward, FetchReturns
<1>8. Detached'
  BY <1>1
     DEF IInv, Attached, Bound, Count, Counted, Detached, Fetched, Greeted, FetchForward,
         FetchReturns
<1> QED
  BY <1>1, <1>2, <1>3, <1>4, <1>5, <1>6, <1>7, <1>8 DEF IInv

LEMMA WriteDoneKeeps ==
    ASSUME IInv, NEW c \in Channel, NEW ok \in BOOLEAN, WriteDone(c, ok)
    PROVE  IInv'
<1> USE NoneAssumption, WritesAssumption
    DEF Typed, mainVars, workVars, Loop, Stage, Handle, NoFetch
<1>1. Pipe' /\ (\A k, d : OnWay(k, d)' <=> OnWay(k, d)) /\ StopIsSent'
  BY PipeStays DEF IInv, StopIsSent, WriteDone, Turn
<1>2. Typed'
  BY <1>1 DEF IInv, Typed, WriteDone, Turn
<1>3. Counted'
  BY <1>1 DEF IInv, Attached, Bound, Count, Counted, Fetched, Greeted, WriteDone, Turn
<1>4. Greeted'
  BY <1>1 DEF IInv, Bound, Count, Counted, Greeted, WriteDone, Turn
<1>5. Bound'
  BY <1>1 DEF IInv, Attached, Bound, Count, Counted, Greeted, WriteDone, Turn
<1>6. Attached'
  BY <1>1 DEF IInv, Attached, Bound, Fetched, WriteDone, Turn
<1>7. Fetched'
  BY <1>1 DEF IInv, Attached, Count, Counted, Fetched, WriteDone, Turn
<1>8. stage[c] \in {"none", "open", "refs"} /\ hChild[c] # "null"
  BY DEF IInv, Detached, Attached, WriteDone
<1>9. Detached'
  BY <1>1, <1>8
     DEF IInv, Attached, Bound, Count, Counted, Detached, Fetched, Greeted, WriteDone,
         Turn
<1> QED
  BY <1>1, <1>2, <1>3, <1>4, <1>5, <1>6, <1>7, <1>9 DEF IInv

LEMMA ChildClosedKeeps ==
    ASSUME IInv, NEW c \in Channel, ChildClosed(c)
    PROVE  IInv'
<1> USE NoneAssumption, WritesAssumption
    DEF Typed, mainVars, workVars, Loop, Stage, Handle, NoFetch
<1>1. Pipe' /\ (\A k, d : OnWay(k, d)' <=> OnWay(k, d)) /\ StopIsSent'
  BY PipeStays DEF IInv, StopIsSent, ChildClosed, Turn
<1>2. Typed'
  BY <1>1, ZenonT(30) DEF IInv, Typed, ChildClosed, Turn
<1>3. Counted'
  BY <1>1 DEF IInv, Attached, Bound, Count, Counted, Fetched, Greeted, ChildClosed, Turn
<1>4. Greeted'
  BY <1>1 DEF IInv, Bound, Count, Counted, Greeted, ChildClosed, Turn
<1>5. Bound'
  BY <1>1 DEF IInv, Attached, Bound, Count, Counted, Greeted, ChildClosed, Turn
<1>6. Attached'
  BY <1>1 DEF IInv, Attached, Bound, Fetched, ChildClosed, Turn
<1>7. Fetched'
  BY <1>1 DEF IInv, Attached, Count, Counted, Fetched, ChildClosed, Turn
<1>8. Detached'
  BY <1>1
     DEF IInv, Attached, Bound, Count, Counted, Detached, Fetched, Greeted, ChildClosed,
         Turn
<1> QED
  BY <1>1, <1>2, <1>3, <1>4, <1>5, <1>6, <1>7, <1>8 DEF IInv

LEMMA ChildClearedKeeps ==
    ASSUME IInv, NEW c \in Channel, ChildCleared(c)
    PROVE  IInv'
<1> USE NoneAssumption, WritesAssumption
    DEF Typed, mainVars, workVars, Loop, Stage, Handle, NoFetch
<1>1. Pipe' /\ (\A k, d : OnWay(k, d)' <=> OnWay(k, d)) /\ StopIsSent'
  BY PipeStays DEF IInv, StopIsSent, ChildCleared, Turn
<1>2. Typed'
  BY <1>1 DEF IInv, Typed, ChildCleared, Turn
<1>3. Counted'
  BY <1>1 DEF IInv, Attached, Bound, Count, Counted, Fetched, Greeted, ChildCleared, Turn
<1>4. Greeted'
  BY <1>1 DEF IInv, Bound, Count, Counted, Greeted, ChildCleared, Turn
<1>5. Bound'
  BY <1>1 DEF IInv, Attached, Bound, Count, Counted, Greeted, ChildCleared, Turn
<1>6. Attached'
  BY <1>1 DEF IInv, Attached, Bound, Fetched, ChildCleared, Turn
<1>7. Fetched'
  BY <1>1 DEF IInv, Attached, Count, Counted, Fetched, ChildCleared, Turn
<1>8. Detached'
  BY <1>1
     DEF IInv, Attached, Bound, Count, Counted, Detached, Fetched, Greeted, ChildCleared,
         Turn
<1> QED
  BY <1>1, <1>2, <1>3, <1>4, <1>5, <1>6, <1>7, <1>8 DEF IInv

LEMMA IdleKeeps == ASSUME IInv, UNCHANGED vars PROVE IInv'
<1>1. Pipe' /\ \A k, d : OnWay(k, d)' <=> OnWay(k, d)
  BY PipeStays DEF IInv, vars, mainVars, workVars
<1> QED
  BY <1>1 DEF IInv, vars, mainVars, workVars, Typed, StopIsSent, Counted, Greeted, Bound, Attached,
              Fetched, Detached, Count

-----------------------------------------------------------------------------
(* The theorems.                                                             *)

LEMMA InitHolds == Init => IInv
  BY NoneAssumption, WritesAssumption
     DEF Init, IInv, Typed, Pipe, Once, StopIsSent, OnWay, Sends, Counted, Count, Greeted, Bound,
         Attached, Fetched, Detached, Loop, Stage, Handle, NoFetch

LEMMA NextKeeps == IInv /\ [Next]_vars => IInv'
<1> SUFFICES ASSUME IInv, [Next]_vars PROVE IInv'
  OBVIOUS
<1>1. ASSUME NEW c \in Channel, Client(c) \/ MainLoop(c) \/ FreeChannelOpeate(c) PROVE IInv'
  BY <1>1, AcceptClientKeeps, ReadMainKeeps, NewConnectTryKeeps, BindChannelToSessionKeeps,
     RemoveFportkeyKeeps, ReadEofKeeps, ReadCommandKeeps, FetchCommandKeeps, MainWriteDoneKeeps,
     HWorkClosedKeeps, NextLoopKeeps, OrderConnecTargetResultKeeps, FreeChannelContinueKeeps,
     FreeChannelFinallyKeeps, AsyncFreeKeeps, FreeChannelOpeateKeeps
     DEF Client, MainLoop
<1>2. ASSUME NEW c \in Channel, FetchEnds(c) \/ DispatchAny(c) \/ Callback(c) PROVE IInv'
  BY <1>2, FetchNothingKeeps, FetchEchoKeeps, FetchCloseKeeps, FetchForwardKeeps,
     DispatchAttachKeeps, DispatchDetachKeeps, WriteDoneKeeps, ChildClosedKeeps, ChildClearedKeeps
     DEF FetchEnds, DispatchAny, Callback
<1>3. CASE SessionDies \/ StopSession \/ ReadCtrl \/ DispatchStop \/ ThreadLoop
  BY <1>3, SessionDiesKeeps, StopSessionKeeps, ReadCtrlKeeps, DispatchStopKeeps, ClearStartsKeeps,
     ClearEndsKeeps, ThreadEndsKeeps DEF ThreadLoop
<1> QED
  BY <1>1, <1>2, <1>3, IdleKeeps DEF Next

LEMMA Invariant == Spec => []IInv
  BY InitHolds, NextKeeps, PTL DEF Spec

\* Every reachable state is well typed; no reference is given up that was not taken, which
\* keeps `ref' a natural number (HdcChannel, OP_REF and OP_UNREF).
THEOREM TypeCorrect == Spec => []TypeOK
<1>1. IInv => TypeOK
  <2> SUFFICES ASSUME IInv PROVE TypeOK
    OBVIOUS
  <2>1. ref \in [Channel -> Nat]
    <3>1. \A c \in Channel : ref[c] \in Nat
      BY WritesAssumption DEF IInv, Typed, Counted, Count
    <3>2. ref \in [Channel -> Int]
      BY DEF IInv, Typed
    <3> QED
      BY <3>1, <3>2
  <2> QED
    BY <2>1, Zenon DEF IInv, Typed, Pipe, TypeOK
<1> QED
  BY <1>1, Invariant, PTL

\* A command in a pipe is on the way.
LEMMA MentionedOnWay ==
    ASSUME Pipe, NEW c \in Channel, Mentions(ctrl, c) \/ Mentions(batch, c)
    PROVE  OnWay("ATTACH", c) \/ OnWay("DETACH", c)
<1>1. PICK q \in {ctrl, batch} : Mentions(q, c)
  OBVIOUS
<1>2. PICK i \in 1..Len(q) : q[i].c = c
  BY <1>1 DEF Mentions
<1>3. i \in DOMAIN q /\ q[i] \in Command
  BY <1>1, <1>2 DEF Pipe
<1>4. q[i] = [command |-> "ATTACH", c |-> c] \/ q[i] = [command |-> "DETACH", c |-> c]
  BY <1>2, <1>3, NoneAssumption DEF Command
<1> QED
  BY <1>1, <1>3, <1>4 DEF OnWay, Sends

\* While its session lives, a channel is taken apart only after the work thread has let it
\* go, for any number of channels, commands in the pipe and writes under way
\* (FreeChannelOpeate, DeatchChannel, FreeChannelContinue).
THEOREM TornDownQuietly == Spec => []TornDownIsQuiet
<1>1. IInv => TornDownIsQuiet
  <2> SUFFICES ASSUME IInv, NEW c \in Channel, TornDown(c), session = "up"
               PROVE  /\ hChild[c] \in {"null", "closed"} /\ clearing[c] = "no"
                      /\ writes[c] = 0 /\ c \notin task \cup mainWrite
                      /\ ~Mentions(ctrl, c) /\ ~Mentions(batch, c)
    BY DEF TornDownIsQuiet
  <2>1. /\ stage[c] \in {"handles", "gone"} /\ clearing[c] = "no" /\ writes[c] = 0
        /\ c \notin mainWrite /\ ~OnWay("ATTACH", c) /\ ~OnWay("DETACH", c)
    BY DEF IInv, TornDown, Greeted, Bound, Detached
  <2>2. hChild[c] \in {"null", "closed"} /\ c \notin task
    BY <2>1 DEF IInv, Attached, Detached
  <2> QED
    BY <2>1, <2>2, MentionedOnWay DEF IInv
<1> QED
  BY <1>1, Invariant, PTL

\* However often a channel's end is asked for, and by whom, a DETACH that is dispatched
\* finds its channel waiting for it ("childCleared has not set, no need OP_QUERY_REF").
THEOREM DetachIsAwaited == Spec => []DetachFinds
<1>1. IInv => DetachFinds
  <2> SUFFICES ASSUME IInv, NEW q \in {ctrl, batch}, NEW i \in 1..Len(q), q[i].command = "DETACH"
               PROVE  /\ stage[q[i].c] = "child"
                      /\ ~childCleared[q[i].c] /\ clearing[q[i].c] = "no"
    BY DEF DetachFinds
  <2>1. i \in DOMAIN q /\ q[i] \in Command
    BY DEF IInv, Pipe
  <2>2. q[i].c \in Channel /\ q[i] = [command |-> "DETACH", c |-> q[i].c]
    BY <2>1 DEF Command
  <2>3. OnWay("DETACH", q[i].c)
    BY <2>1, <2>2 DEF OnWay, Sends
  <2> QED
    BY <2>2, <2>3 DEF IInv, Detached
<1> QED
  BY <1>1, Invariant, PTL
=============================================================================
