------------------------ MODULE MetricsCommandProofs ------------------------
(***************************************************************************)
(* What the parts of `lspf-analysis metrics' keep to, for any number of    *)
(* jobs and files, and for files of any length.                            *)
(*                                                                         *)
(* The runner: a consumer ends on a pill or on a closed channel; either    *)
(* way the walk is over (WalkIsOver) and no file is left in the channel    *)
(* (EndedMeansDrained, which rests on PillsComeLast).  Every file sent is  *)
(* in the channel, in a consumer's hands or processed (NoneLost), and      *)
(* consumers that ended hold none (Hands).  run() returns Ok when it has   *)
(* seen all of them end (Joined).  That no file is in two of these places  *)
(* (Once) is an invariant on top of these.                                 *)
(*                                                                         *)
(* The lines: the count of comment lines is unsigned and taken back one at *)
(* a time (check_comment_ends_on_code_line).  A comment is taken back for  *)
(* the first code on the row it ends on, and that row is code from then    *)
(* on.  As long as it is not, the comment is still among those counted     *)
(* (Sound).                                                                *)
(*                                                                         *)
(* The rows: an open space has counted the nodes from its first one to the *)
(* one before the next open space begins (SpacesFit), and has found every  *)
(* row of code among them (RowsFit).  The comment it remembers is of use   *)
(* only to code on the row it ends on: in an ordinary file a comment that  *)
(* could still be taken back is the one remembered (Remembered), so each   *)
(* is taken back when, and only when, its row turns out to be code.        *)
(*                                                                         *)
(* The walk: metrics() and finalize() compare levels only.  The spaces     *)
(* around a node on the stack are the first open ones, as many as its      *)
(* level says (Fits), and the levels do not decrease towards the top       *)
(* (StackFits), so closing what is above the level of the node taken       *)
(* leaves those of the others.  Paths to the root and lists in source      *)
(* order are recursive functions: what they are is proved by taking the    *)
(* least node it could fail for.                                           *)
(*                                                                         *)
(* The conditions: unary_conditions(x) is the number of operands below x   *)
(* whose test x is part of (Leaves).  compute() asks for it at the         *)
(* conditions of statements and at the outermost boolean operators         *)
(* (Heads); a test has one of them at most (OneHead), so the sets of       *)
(* operands counted from two nodes are disjoint.                           *)
(***************************************************************************)
EXTENDS MCMetricsCommand, FiniteSetTheorems, SequenceTheorems, WellFoundedInduction, TLAPS

Hands ==
    \A c \in Consumers :
        /\ job[c] # NoJob => consumer[c] \in {"processing", "panicked"}
        /\ consumer[c] = "processing" => job[c] # NoJob

NoneLost ==
    /\ processed \subseteq 1..found
    /\ \A f \in 1..found : InChannel(f) \/ InHand(f) \/ f \in processed
    /\ \A i \in DOMAIN channel : channel[i] # Pill => channel[i] \in 1..found
    /\ \A c \in Consumers : job[c] # NoJob => job[c] \in 1..found

SomeEnded == \E c \in Consumers : consumer[c] = "ended"

WalkIsOver ==
    /\ main = "produce" => producer = "unborn"
    /\ main = "consume" => producer # "unborn"
    /\ producer = "unborn" => started = 0
    /\ SomeEnded \/ InChannel(Pill) \/ main \in {"poison", "reap"}
           => producer \notin {"unborn", "walking"}
    /\ result = "ok" => producer = "ok" /\ main = "returned"
    /\ main \in {"poison", "reap"} => producer \in {"ok", "failed"}

EndedMeansDrained ==
    SomeEnded => \A i \in DOMAIN channel : channel[i] = Pill

Joined ==
    /\ \A c \in 1..joined : consumer[c] = "ended"
    /\ main = "reap" => joined < Workers
    /\ main = "consume" => started < Workers
    /\ result = "ok" => joined = Workers
    /\ \A c \in Consumers : c > started => consumer[c] = "unborn"
    /\ main \in {"produce", "consume", "join"} => poisoned = 0
    /\ main = "poison" => poisoned < Workers
    /\ main \in {"produce", "consume", "join", "poison"} => joined = 0
    /\ main \in {"produce", "consume", "join", "poison", "reap"} => result = "none"

IInv ==
    /\ TypeOK
    /\ Hands
    /\ NoneLost
    /\ PillsComeLast
    /\ WalkIsOver
    /\ EndedMeansDrained
    /\ Joined

Msgs == Files \cup {Pill}

LEMMA WorkersFact == Workers \in Nat \ {0} /\ Consumers = 1..Workers
BY ConcurrentRunnerAssumption DEF Workers, Consumers

LEMMA Appended ==
    ASSUME NEW e \in Msgs, channel \in Seq(Msgs), channel' = Append(channel, e)
    PROVE  /\ channel' \in Seq(Msgs)
           /\ DOMAIN channel' = 1..Len(channel) + 1
           /\ DOMAIN channel = 1..Len(channel)
           /\ Len(channel) \in Nat
           /\ \A i \in DOMAIN channel : channel'[i] = channel[i]
           /\ channel'[Len(channel) + 1] = e
BY DEF Msgs

LEMMA Taken ==
    ASSUME channel \in Seq(Msgs), channel # <<>>, channel' = Tail(channel)
    PROVE  /\ channel' \in Seq(Msgs)
           /\ Len(channel) \in Nat \ {0}
           /\ DOMAIN channel = 1..Len(channel)
           /\ DOMAIN channel' = 1..Len(channel) - 1
           /\ \A i \in 1..Len(channel) - 1 : channel'[i] = channel[i + 1]
           /\ Head(channel) = channel[1]
           /\ Head(channel) \in Msgs
BY DEF Msgs

LEMMA InitEstablishes == Init => IInv
<1> SUFFICES ASSUME Init PROVE IInv
  OBVIOUS
<1> USE WorkersFact, ConcurrentRunnerAssumption DEF Init
<1>1. TypeOK
  BY DEF TypeOK, Files
<1>2. Hands /\ NoneLost /\ PillsComeLast /\ EndedMeansDrained
  BY DEF Hands, NoneLost, PillsComeLast, EndedMeansDrained, SomeEnded
<1>3. WalkIsOver /\ Joined
  BY DEF WalkIsOver, Joined, SomeEnded, InChannel
<1>4. QED
  BY <1>1, <1>2, <1>3 DEF IInv

LEMMA SendPreserves == ASSUME IInv, Send PROVE IInv'
<1> USE WorkersFact, ConcurrentRunnerAssumption
<1>1. /\ producer = "walking" /\ found < MaxFiles /\ found \in Nat
      /\ found' = found + 1 /\ channel' = Append(channel, found + 1)
      /\ found + 1 \in Msgs /\ found + 1 # Pill /\ channel \in Seq(Msgs)
      /\ UNCHANGED <<threadVars, collected, processed, mainVars>>
  BY DEF Send, IInv, TypeOK, Msgs, Files
<1>2. /\ channel' \in Seq(Msgs)
      /\ DOMAIN channel' = 1..Len(channel) + 1 /\ DOMAIN channel = 1..Len(channel)
      /\ Len(channel) \in Nat
      /\ \A i \in DOMAIN channel : channel'[i] = channel[i]
      /\ channel'[Len(channel) + 1] = found + 1
  BY <1>1, Appended
<1>3. ~SomeEnded /\ ~InChannel(Pill) /\ main \notin {"poison", "reap"}
  BY <1>1 DEF IInv, WalkIsOver
<1>4. ~InChannel(Pill)'
  BY <1>1, <1>2, <1>3 DEF InChannel
<1>5. TypeOK'
  BY <1>1, <1>2 DEF IInv, TypeOK, threadVars, mainVars, Msgs
<1>6. Hands' /\ Joined'
  BY <1>1 DEF IInv, Hands, Joined, threadVars, mainVars
<1>7. NoneLost'
  <2>1. \A f \in 1..found : InChannel(f) => InChannel(f)'
    BY <1>1, <1>2 DEF InChannel
  <2>2. \A f : f = found + 1 => InChannel(f)'
    BY <1>1, <1>2 DEF InChannel
  <2>3. \A f \in 1..found' : f \in 1..found \/ f = found + 1
    BY <1>1
  <2>4. \A f \in 1..found' : InChannel(f)' \/ InHand(f)' \/ f \in processed'
    <3>1. \A f \in 1..found : InChannel(f) \/ InHand(f) \/ f \in processed
      BY DEF IInv, NoneLost
    <3>2. processed' = processed /\ \A f : InHand(f) => InHand(f)'
      BY <1>1 DEF InHand, threadVars
    <3>3. QED
      BY <2>1, <2>2, <2>3, <3>1, <3>2
  <2>5. \A i \in DOMAIN channel' : channel'[i] # Pill => channel'[i] \in 1..found'
    BY <1>1, <1>2 DEF IInv, NoneLost
  <2>6. QED
    <3>1. processed' \subseteq 1..found'
      BY <1>1 DEF IInv, NoneLost
    <3>2. \A c \in Consumers : job'[c] # NoJob => job'[c] \in 1..found'
      BY <1>1 DEF IInv, NoneLost, threadVars
    <3>3. QED
      BY <2>4, <2>5, <3>1, <3>2 DEF NoneLost
<1>8. PillsComeLast'
  BY <1>4 DEF PillsComeLast, InChannel
<1>9. WalkIsOver' /\ EndedMeansDrained'
  BY <1>1, <1>3, <1>4 DEF IInv, WalkIsOver, EndedMeansDrained, SomeEnded, threadVars, mainVars
<1>10. QED
  BY <1>5, <1>6, <1>7, <1>8, <1>9 DEF IInv

LEMMA EndWalkPreserves == ASSUME IInv, EndWalk PROVE IInv'
<1> USE WorkersFact, ConcurrentRunnerAssumption
    DEF EndWalk, threadVars, workVars, mainVars, IInv
<1>1. TypeOK'
  BY DEF TypeOK
<1>2. Hands' /\ PillsComeLast' /\ EndedMeansDrained' /\ Joined'
  BY DEF Hands, PillsComeLast, EndedMeansDrained, SomeEnded, Joined
<1>3. NoneLost'
  BY DEF NoneLost, InChannel, InHand
<1>4. WalkIsOver'
  BY DEF WalkIsOver, SomeEnded, InChannel
<1>5. QED
  BY <1>1, <1>2, <1>3, <1>4

LEMMA ReceivePreserves == ASSUME IInv, NEW c \in Consumers, Receive(c) PROVE IInv'
<1> USE WorkersFact, ConcurrentRunnerAssumption
<1> DEFINE m == Head(channel)
<1>1. /\ consumer[c] = "receiving" /\ channel # <<>> /\ channel' = Tail(channel)
      /\ channel \in Seq(Msgs) /\ UNCHANGED <<producer, workVars, mainVars>>
  BY DEF Receive, IInv, TypeOK, Msgs
<1>2. /\ channel' \in Seq(Msgs) /\ Len(channel) \in Nat \ {0}
      /\ DOMAIN channel = 1..Len(channel) /\ DOMAIN channel' = 1..Len(channel) - 1
      /\ \A i \in DOMAIN channel' : i + 1 \in DOMAIN channel /\ channel'[i] = channel[i + 1]
      /\ m = channel[1] /\ m \in Msgs /\ 1 \in DOMAIN channel
  BY <1>1, Taken
<1>3. /\ m = Pill => consumer' = [consumer EXCEPT ![c] = "ended"] /\ job' = job
      /\ m # Pill => /\ consumer' = [consumer EXCEPT ![c] = "processing"]
                     /\ job' = [job EXCEPT ![c] = m]
  BY DEF Receive
<1> HIDE DEF m
<1>4. m # Pill => m \in 1..found /\ m \in Files /\ m # NoJob
  BY <1>2 DEF IInv, NoneLost, TypeOK, Files
<1>5. job[c] = NoJob
  BY <1>1 DEF IInv, Hands
<1>6. TypeOK'
  <2>1. consumer' \in [Consumers -> {"unborn", "receiving", "processing", "ended", "panicked"}]
    BY <1>3 DEF IInv, TypeOK
  <2>2. job' \in [Consumers -> Files \cup {NoJob}]
    BY <1>3, <1>4 DEF IInv, TypeOK
  <2>3. QED
    BY <1>1, <1>2, <2>1, <2>2 DEF IInv, TypeOK, workVars, mainVars, Msgs
<1>7. Hands'
  BY <1>1, <1>3, <1>4, <1>5, <1>6 DEF IInv, Hands, TypeOK
<1>8. PillsComeLast'
  BY <1>2 DEF IInv, PillsComeLast
<1>9. NoneLost'
  <2>1. \A f \in 1..found : InChannel(f) => InChannel(f)' \/ f = m
    <3> SUFFICES ASSUME NEW f \in 1..found, NEW i \in DOMAIN channel, channel[i] = f, f # m
                 PROVE  \E j \in DOMAIN channel' : channel'[j] = f
      BY DEF InChannel
    <3>1. i # 1 /\ i - 1 \in DOMAIN channel'
      BY <1>2
    <3>2. QED
      BY <1>2, <3>1
  <2>2. \A f : InHand(f) => InHand(f)' \/ f = NoJob
    BY <1>3, <1>5 DEF InHand, IInv, TypeOK
  <2>3. \A f \in 1..found : f = m => InHand(f)'
    BY <1>3 DEF InHand, IInv, TypeOK
  <2>4. \A f \in 1..found : f # NoJob
    OBVIOUS
  <2>5. \A f \in 1..found : InChannel(f)' \/ InHand(f)' \/ f \in processed
    <3>1. \A f \in 1..found : InChannel(f) \/ InHand(f) \/ f \in processed
      BY DEF IInv, NoneLost
    <3>2. QED
      BY <2>1, <2>2, <2>3, <2>4, <3>1
  <2>6. \A i \in DOMAIN channel' : channel'[i] # Pill => channel'[i] \in 1..found
    BY <1>2 DEF IInv, NoneLost
  <2>7. \A d \in Consumers : job'[d] # NoJob => job'[d] \in 1..found
    BY <1>3, <1>4 DEF IInv, NoneLost, TypeOK
  <2>8. QED
    <3>1. found' = found /\ processed' = processed /\ processed \subseteq 1..found
      BY <1>1 DEF IInv, NoneLost, workVars
    <3>2. QED
      BY <2>5, <2>6, <2>7, <3>1 DEF NoneLost
<1>10. m = Pill => InChannel(Pill) /\ \A i \in DOMAIN channel' : channel'[i] = Pill
  <2> SUFFICES ASSUME m = Pill
               PROVE  InChannel(Pill) /\ \A i \in DOMAIN channel' : channel'[i] = Pill
    OBVIOUS
  <2>1. InChannel(Pill)
    BY <1>2 DEF InChannel
  <2>2. \A i \in DOMAIN channel : 1 < i => channel[i] = Pill
    BY <1>2 DEF IInv, PillsComeLast
  <2>3. QED
    BY <1>2, <2>1, <2>2
<1>11. SomeEnded' => SomeEnded \/ m = Pill
  BY <1>3 DEF SomeEnded, IInv, TypeOK
<1>12. EndedMeansDrained'
  BY <1>2, <1>10, <1>11 DEF IInv, EndedMeansDrained
<1>13. InChannel(Pill)' => InChannel(Pill)
  BY <1>2 DEF InChannel
<1>14. WalkIsOver'
  BY <1>1, <1>10, <1>11, <1>13 DEF IInv, WalkIsOver, workVars, mainVars
<1>15. Joined'
  <2>1. \A d \in Consumers : consumer[d] \in {"ended", "unborn"} => consumer'[d] = consumer[d]
    BY <1>1, <1>3 DEF IInv, TypeOK
  <2>2. \A d \in 1..joined : d \in Consumers
    BY DEF IInv, TypeOK
  <2>3. QED
    BY <1>1, <2>1, <2>2 DEF IInv, Joined, mainVars
<1>16. QED
  BY <1>6, <1>7, <1>8, <1>9, <1>12, <1>14, <1>15 DEF IInv

LEMMA DisconnectPreserves == ASSUME IInv, NEW c \in Consumers, Disconnect(c) PROVE IInv'
<1> USE WorkersFact, ConcurrentRunnerAssumption
<1>1. /\ consumer[c] = "receiving" /\ channel = <<>> /\ main = "returned"
      /\ producer # "walking" /\ consumer' = [consumer EXCEPT ![c] = "ended"]
      /\ UNCHANGED <<channel, producer, job, workVars, mainVars>>
  BY DEF Disconnect, SenderAlive, Running
<1>2. \A d \in Consumers \ {c} : consumer'[d] = consumer[d]
  BY <1>1 DEF IInv, TypeOK
<1>3. consumer'[c] = "ended"
  BY <1>1 DEF IInv, TypeOK
<1>4. TypeOK'
  BY <1>1 DEF IInv, TypeOK, workVars, mainVars
<1>5. Hands'
  BY <1>1, <1>2 DEF IInv, Hands
<1>6. NoneLost' /\ PillsComeLast'
  BY <1>1 DEF IInv, NoneLost, PillsComeLast, InChannel, InHand, workVars
<1>7. producer # "unborn"
  BY <1>1 DEF IInv, Joined, WalkIsOver, TypeOK
<1>8. WalkIsOver' /\ EndedMeansDrained'
  BY <1>1, <1>7 DEF IInv, WalkIsOver, EndedMeansDrained, InChannel, mainVars
<1>9. Joined'
  <2>1. \A d \in Consumers : consumer[d] \in {"ended", "unborn"} => consumer'[d] = consumer[d]
    BY <1>1, <1>2
  <2>2. \A d \in 1..joined : d \in Consumers
    BY DEF IInv, TypeOK
  <2>3. QED
    BY <1>1, <2>1, <2>2 DEF IInv, Joined, mainVars
<1>10. QED
  BY <1>4, <1>5, <1>6, <1>8, <1>9 DEF IInv

LEMMA WorkPreserves ==
    ASSUME IInv, NEW c \in Consumers, Collect(c) \/ Finish(c) \/ Panic(c)
    PROVE  IInv'
<1> USE WorkersFact, ConcurrentRunnerAssumption
<1>1. /\ consumer[c] = "processing"
      /\ consumer' = [consumer EXCEPT ![c] = consumer'[c]]
      /\ consumer'[c] \in {"processing", "receiving", "panicked"}
      /\ UNCHANGED <<channel, producer, found, mainVars>>
      /\ \/ job' = job /\ processed' = processed /\ consumer'[c] # "receiving"
         \/ /\ consumer'[c] = "receiving"
            /\ job' = [job EXCEPT ![c] = NoJob]
            /\ processed' = processed \cup {job[c]}
  BY DEF Collect, Finish, Panic, IInv, TypeOK, threadVars, workVars
<1>2. job[c] \in Files /\ job[c] \in 1..found
  <2>1. job[c] # NoJob
    BY <1>1 DEF IInv, Hands
  <2>2. QED
    BY <2>1 DEF IInv, TypeOK, NoneLost
<1>3. collected' \subseteq Files
  BY <1>2 DEF Collect, Finish, Panic, IInv, TypeOK, threadVars, workVars
<1>4. TypeOK'
  <2>1. consumer' \in [Consumers -> {"unborn", "receiving", "processing", "ended", "panicked"}]
    BY <1>1 DEF IInv, TypeOK
  <2>2. job' \in [Consumers -> Files \cup {NoJob}] /\ processed' \subseteq Files
    BY <1>1, <1>2 DEF IInv, TypeOK
  <2>3. QED
    BY <1>1, <1>3, <2>1, <2>2 DEF IInv, TypeOK, mainVars
<1>5. \A d \in Consumers \ {c} : consumer'[d] = consumer[d] /\ job'[d] = job[d]
  BY <1>1 DEF IInv, TypeOK
<1>6. Hands'
  BY <1>1, <1>5 DEF IInv, Hands, TypeOK
<1>7. NoneLost'
  <2>1. \A f \in 1..found : InHand(f) => InHand(f)' \/ f \in processed'
    BY <1>1, <1>5 DEF InHand
  <2>2. \A f \in 1..found : InChannel(f)' \/ InHand(f)' \/ f \in processed'
    BY <1>1, <2>1 DEF IInv, NoneLost, InChannel
  <2>3. processed' \subseteq 1..found
    BY <1>1, <1>2 DEF IInv, NoneLost
  <2>4. \A d \in Consumers : job'[d] # NoJob => job'[d] \in 1..found
    BY <1>1, <1>5 DEF IInv, NoneLost, TypeOK
  <2>5. \A i \in DOMAIN channel' : channel'[i] # Pill => channel'[i] \in 1..found
    BY <1>1 DEF IInv, NoneLost
  <2>6. found' = found
    BY <1>1
  <2>7. QED
    BY <2>2, <2>3, <2>4, <2>5, <2>6 DEF NoneLost
<1>8. SomeEnded' => SomeEnded
  BY <1>1, <1>5 DEF SomeEnded
<1>9. PillsComeLast' /\ EndedMeansDrained' /\ WalkIsOver'
  BY <1>1, <1>8 DEF IInv, PillsComeLast, EndedMeansDrained, WalkIsOver, InChannel, mainVars
<1>10. Joined'
  <2>1. \A d \in Consumers : consumer[d] \in {"ended", "unborn"} => consumer'[d] = consumer[d]
    BY <1>1, <1>5
  <2>2. \A d \in 1..joined : d \in Consumers
    BY DEF IInv, TypeOK
  <2>3. QED
    BY <1>1, <2>1, <2>2 DEF IInv, Joined, mainVars
<1>11. QED
  BY <1>4, <1>6, <1>7, <1>9, <1>10 DEF IInv

(* The steps of run() but Poison leave the channel, the jobs and the files. *)
LEMMA StartPreserves == ASSUME IInv, SpawnProducer \/ SpawnConsumer PROVE IInv'
<1> USE WorkersFact, ConcurrentRunnerAssumption
<1>1. /\ main \in {"produce", "consume"} /\ UNCHANGED <<channel, job, workVars, poisoned, joined>>
      /\ \/ result' = result \/ (main' = "returned" /\ result' = "Thread")
  BY DEF SpawnProducer, SpawnConsumer, Return
<1>2. CASE SpawnProducer
  <2>1. /\ main = "produce" /\ UNCHANGED <<consumer, started>>
        /\ \/ producer' = "walking" /\ main' = "consume" /\ result' = result
           \/ main' = "returned" /\ result' = "Thread" /\ producer' = producer
    BY <1>2 DEF SpawnProducer, Return
  <2>2. TypeOK'
    BY <1>1, <2>1 DEF IInv, TypeOK, workVars
  <2>3. ~SomeEnded /\ ~InChannel(Pill)
    BY <2>1 DEF IInv, WalkIsOver
  <2>4. Hands' /\ NoneLost' /\ PillsComeLast' /\ EndedMeansDrained'
    BY <1>1, <2>1 DEF IInv, Hands, NoneLost, PillsComeLast, EndedMeansDrained, SomeEnded,
       InChannel, InHand, workVars
  <2>5. WalkIsOver'
    BY <1>1, <2>1, <2>3 DEF IInv, WalkIsOver, SomeEnded, InChannel, Joined
  <2>6. Joined'
    BY <1>1, <2>1 DEF IInv, Joined, WalkIsOver, TypeOK
  <2>7. QED
    BY <2>2, <2>4, <2>5, <2>6 DEF IInv
<1>3. CASE SpawnConsumer
  <2>1. /\ main = "consume" /\ producer' = producer
        /\ \/ /\ started' = started + 1 /\ started + 1 \in Consumers /\ result' = result
              /\ consumer' = [consumer EXCEPT ![started + 1] = "receiving"]
              /\ main' \in {"join", "consume"} /\ (main' = "consume" => started' < Workers)
           \/ main' = "returned" /\ result' = "Thread" /\ UNCHANGED <<started, consumer>>
    BY <1>3 DEF SpawnConsumer, Return, IInv, Joined, TypeOK
  <2>2. TypeOK'
    BY <1>1, <2>1 DEF IInv, TypeOK, workVars
  <2>3. \A c \in Consumers : consumer'[c] = consumer[c]
                             \/ (consumer[c] = "unborn" /\ consumer'[c] = "receiving" /\ c <= started')
    BY <2>1 DEF IInv, Joined, TypeOK
  <2>4. Hands' /\ (SomeEnded' => SomeEnded)
    BY <1>1, <2>3 DEF IInv, Hands, SomeEnded
  <2>5. NoneLost' /\ PillsComeLast' /\ EndedMeansDrained'
    BY <1>1, <2>4 DEF IInv, NoneLost, PillsComeLast, EndedMeansDrained,
       InChannel, InHand, workVars
  <2>6. WalkIsOver'
    BY <1>1, <2>1, <2>4 DEF IInv, WalkIsOver, InChannel, Joined
  <2>7. Joined'
    BY <1>1, <2>1, <2>3 DEF IInv, Joined, TypeOK
  <2>8. QED
    BY <2>2, <2>4, <2>5, <2>6, <2>7 DEF IInv
<1>4. QED
  BY <1>2, <1>3

LEMMA PoisonPreserves == ASSUME IInv, Poison PROVE IInv'
<1> USE WorkersFact, ConcurrentRunnerAssumption
<1>1. /\ main = "poison" /\ channel' = Append(channel, Pill) /\ poisoned' = poisoned + 1
      /\ main' \in {"reap", "poison"} /\ (main' = "poison" => poisoned' < Workers)
      /\ poisoned < Workers /\ joined = 0 /\ result = "none"
      /\ Pill \in Msgs /\ channel \in Seq(Msgs)
      /\ UNCHANGED <<threadVars, workVars, started, joined, result>>
  BY DEF Poison, IInv, Joined, TypeOK, Msgs
<1>2. /\ channel' \in Seq(Msgs)
      /\ DOMAIN channel' = 1..Len(channel) + 1 /\ DOMAIN channel = 1..Len(channel)
      /\ Len(channel) \in Nat
      /\ \A i \in DOMAIN channel : channel'[i] = channel[i]
      /\ channel'[Len(channel) + 1] = Pill
  BY <1>1, Appended
<1>3. TypeOK'
  BY <1>1, <1>2 DEF IInv, TypeOK, threadVars, workVars, Msgs
<1>4. Hands' /\ Joined'
  BY <1>1 DEF IInv, Hands, Joined, TypeOK, threadVars
<1>5. NoneLost'
  <2>1. \A f : InChannel(f) => InChannel(f)'
    BY <1>1, <1>2 DEF InChannel
  <2>2. \A f : InHand(f) => InHand(f)'
    BY <1>1 DEF InHand, threadVars
  <2>3. found' = found /\ processed' = processed /\ job' = job
    BY <1>1 DEF threadVars, workVars
  <2>4. \A i \in DOMAIN channel' : channel'[i] # Pill => channel'[i] \in 1..found
    BY <1>2 DEF IInv, NoneLost
  <2>5. QED
    BY <2>1, <2>2, <2>3, <2>4 DEF IInv, NoneLost
<1>6. PillsComeLast' /\ EndedMeansDrained'
  BY <1>1, <1>2 DEF IInv, PillsComeLast, EndedMeansDrained, SomeEnded, threadVars
<1>7. WalkIsOver'
  BY <1>1 DEF IInv, WalkIsOver, threadVars
<1>8. QED
  BY <1>3, <1>4, <1>5, <1>6, <1>7 DEF IInv

LEMMA JoinPreserves == ASSUME IInv, JoinProducer \/ Reap PROVE IInv'
<1> USE WorkersFact, ConcurrentRunnerAssumption
<1>1. UNCHANGED <<channel, threadVars, workVars, started, poisoned>>
  BY DEF JoinProducer, Reap
<1>2. Hands' /\ NoneLost' /\ PillsComeLast' /\ EndedMeansDrained' /\ (SomeEnded' <=> SomeEnded)
  BY <1>1 DEF IInv, Hands, NoneLost, PillsComeLast, EndedMeansDrained, SomeEnded,
     InChannel, InHand, threadVars, workVars
<1>3. CASE JoinProducer
  <2>1. /\ main = "join" /\ joined' = joined
        /\ \/ main' = "returned" /\ result' = "Producer"
           \/ producer \in {"ok", "failed"} /\ main' = "poison" /\ result' = result
    BY <1>3 DEF JoinProducer, Return
  <2>2. TypeOK' /\ Joined' /\ WalkIsOver'
    BY <1>1, <1>2, <2>1 DEF IInv, TypeOK, Joined, WalkIsOver, InChannel, threadVars, workVars
  <2>3. QED
    BY <1>2, <2>2 DEF IInv
<1>4. CASE Reap
  <2>1. /\ main = "reap" /\ joined < Workers /\ result = "none"
        /\ \/ main' = "returned" /\ result' = "Receiver" /\ joined' = joined
           \/ /\ consumer[joined + 1] = "ended" /\ joined' = joined + 1
              /\ \/ joined' < Workers /\ main' = main /\ result' = result
                 \/ /\ joined' = Workers /\ main' = "returned"
                    /\ result' \in {"ok", "Sender"} /\ (result' = "ok" => producer = "ok")
    BY <1>4 DEF Reap, Return, IInv, Joined, TypeOK
  <2>2. TypeOK'
    BY <1>1, <2>1 DEF IInv, TypeOK, threadVars, workVars
  <2>3. Joined'
    BY <1>1, <2>1 DEF IInv, TypeOK, Joined, threadVars
  <2>4. WalkIsOver'
    BY <1>1, <1>2, <2>1 DEF IInv, WalkIsOver, InChannel, threadVars
  <2>5. QED
    BY <1>2, <2>2, <2>3, <2>4 DEF IInv
<1>5. QED
  BY <1>3, <1>4

LEMMA NextPreserves == IInv /\ [Next]_vars => IInv'
<1> SUFFICES ASSUME IInv, [Next]_vars PROVE IInv'
  OBVIOUS
<1>1. CASE UNCHANGED vars
  BY <1>1 DEF vars, threadVars, workVars, mainVars, IInv, TypeOK, Hands, NoneLost,
     PillsComeLast, WalkIsOver, EndedMeansDrained, Joined, SomeEnded, InChannel, InHand
<1>2. CASE Next
  BY <1>2, SendPreserves, EndWalkPreserves, ReceivePreserves, DisconnectPreserves,
     WorkPreserves, StartPreserves, PoisonPreserves, JoinPreserves
     DEF Next, ProducerStep, ConsumerStep, MainStep
<1>3. QED
  BY <1>1, <1>2

(* When all consumers have ended, what was sent is processed.               *)
LEMMA IInvOkIsComplete == IInv => OkIsComplete
<1> USE WorkersFact, ConcurrentRunnerAssumption
<1> SUFFICES ASSUME IInv, result = "ok"
             PROVE  /\ producer = "ok" /\ processed = 1..found
                    /\ \A c \in Consumers : consumer[c] = "ended"
  BY DEF OkIsComplete
<1>1. producer = "ok"
  BY DEF IInv, WalkIsOver
<1>2. \A c \in Consumers : consumer[c] = "ended"
  BY DEF IInv, Joined
<1>3. \A f \in 1..found : ~InChannel(f)
  BY <1>2 DEF IInv, EndedMeansDrained, SomeEnded, InChannel
<1>4. \A f \in 1..found : ~InHand(f)
  BY <1>2 DEF IInv, Hands, InHand
<1>5. QED
  BY <1>1, <1>2, <1>3, <1>4 DEF IInv, NoneLost

-----------------------------------------------------------------------------
(* Beyond being somewhere (NoneLost), a file is in one place only.          *)

OnePlace ==
    /\ collected \subseteq 1..found
    /\ \A f \in 1..found : InChannel(f) => ~InHand(f) /\ f \notin processed \cup collected
    /\ \A f \in 1..found : InHand(f) => f \notin processed

OneMessage ==
    \A i, j \in DOMAIN channel : channel[i] = channel[j] /\ channel[i] # Pill => i = j

OneHolder ==
    \A c, d \in Consumers : job[c] = job[d] /\ job[c] # NoJob => c = d

Once == OnePlace /\ OneMessage /\ OneHolder

LEMMA SendKeepsOnce == ASSUME IInv, Once, Send PROVE Once'
<1> USE WorkersFact, ConcurrentRunnerAssumption
<1>1. /\ found \in Nat /\ found' = found + 1 /\ channel' = Append(channel, found + 1)
      /\ found + 1 \in Msgs /\ found + 1 # Pill /\ channel \in Seq(Msgs)
      /\ UNCHANGED <<threadVars, collected, processed>>
  BY DEF Send, IInv, TypeOK, Msgs, Files
<1>2. /\ DOMAIN channel' = 1..Len(channel) + 1 /\ DOMAIN channel = 1..Len(channel)
      /\ Len(channel) \in Nat
      /\ \A i \in DOMAIN channel : channel'[i] = channel[i]
      /\ channel'[Len(channel) + 1] = found + 1
  BY <1>1, Appended
<1>3. \A i \in DOMAIN channel : channel[i] # found + 1
  BY <1>1 DEF IInv, NoneLost
<1>4. ~InHand(found + 1)
  BY <1>1 DEF IInv, NoneLost, InHand
<1>5. found + 1 \notin processed \cup collected
  BY <1>1 DEF IInv, NoneLost, Once, OnePlace
<1>6. \A f : InHand(f)' <=> InHand(f)
  BY <1>1 DEF InHand, threadVars
<1>7. \A f \in 1..found : InChannel(f)' => InChannel(f)
  BY <1>1, <1>2 DEF InChannel
<1>8. OnePlace'
  <2>1. \A f \in 1..found' : f \in 1..found \/ f = found + 1
    BY <1>1
  <2>2. collected' \subseteq 1..found'
    BY <1>1 DEF Once, OnePlace
  <2>3. processed' = processed /\ collected' = collected
    BY <1>1
  <2>4. QED
    BY <1>4, <1>5, <1>6, <1>7, <2>1, <2>2, <2>3 DEF Once, OnePlace
<1>9. OneMessage'
  BY <1>2, <1>3 DEF Once, OneMessage
<1>10. OneHolder'
  BY <1>1 DEF Once, OneHolder, threadVars
<1>11. QED
  BY <1>8, <1>9, <1>10 DEF Once

LEMMA ReceiveKeepsOnce == ASSUME IInv, Once, NEW c \in Consumers, Receive(c) PROVE Once'
<1> USE WorkersFact, ConcurrentRunnerAssumption
<1> DEFINE m == Head(channel)
<1>1. /\ channel # <<>> /\ channel' = Tail(channel) /\ channel \in Seq(Msgs)
      /\ consumer[c] = "receiving" /\ UNCHANGED workVars
  BY DEF Receive, IInv, TypeOK, Msgs
<1>2. /\ Len(channel) \in Nat \ {0}
      /\ DOMAIN channel = 1..Len(channel) /\ DOMAIN channel' = 1..Len(channel) - 1
      /\ \A i \in DOMAIN channel' : i + 1 \in DOMAIN channel /\ channel'[i] = channel[i + 1]
      /\ m = channel[1] /\ 1 \in DOMAIN channel
  BY <1>1, Taken
<1>3. job' = IF m = Pill THEN job ELSE [job EXCEPT ![c] = m]
  BY DEF Receive
<1> HIDE DEF m
<1>4. job[c] = NoJob
  BY <1>1 DEF IInv, Hands
<1>5. m # Pill => m \in 1..found /\ m # NoJob /\ InChannel(m)
  BY <1>2 DEF IInv, NoneLost, InChannel
<1>6. \A f : InChannel(f)' => InChannel(f)
  BY <1>2 DEF InChannel
<1>7. \A f : f = m /\ m # Pill => ~InChannel(f)'
  BY <1>2 DEF InChannel, Once, OneMessage
<1>8. \A f \in 1..found : InHand(f)' => InHand(f) \/ (f = m /\ m # Pill)
  <2> SUFFICES ASSUME NEW f \in 1..found, NEW d \in Consumers, job'[d] = f
               PROVE  job[d] = f \/ (f = m /\ m # Pill)
    BY DEF InHand
  <2>1. job'[d] = job[d] \/ (job'[d] = m /\ m # Pill)
    BY <1>3 DEF IInv, TypeOK
  <2>2. QED
    BY <2>1
<1>9. OnePlace'
  <2>1. UNCHANGED <<found, collected, processed>>
    BY <1>1 DEF workVars
  <2>2. \A f \in 1..found : InChannel(f)' => ~InHand(f)' /\ f \notin processed \cup collected
    BY <1>6, <1>7, <1>8 DEF Once, OnePlace
  <2>3. \A f \in 1..found : InHand(f)' => f \notin processed
    BY <1>5, <1>8 DEF Once, OnePlace
  <2>4. QED
    BY <2>1, <2>2, <2>3 DEF Once, OnePlace
<1>10. OneMessage'
  BY <1>2 DEF Once, OneMessage
<1>11. m # Pill => ~InHand(m)
  BY <1>5 DEF Once, OnePlace
<1>12. OneHolder'
  BY <1>3, <1>4, <1>11 DEF Once, OneHolder, InHand, IInv, TypeOK
<1>13. QED
  BY <1>9, <1>10, <1>12 DEF Once

LEMMA WorkKeepsOnce ==
    ASSUME IInv, Once, NEW c \in Consumers, Collect(c) \/ Finish(c) \/ Panic(c)
    PROVE  Once'
<1> USE WorkersFact, ConcurrentRunnerAssumption
<1>1. /\ consumer[c] = "processing" /\ UNCHANGED <<channel, found>>
      /\ \/ job' = job /\ processed' = processed /\ collected' \subseteq collected \cup {job[c]}
         \/ /\ job' = [job EXCEPT ![c] = NoJob] /\ collected' = collected
            /\ processed' = processed \cup {job[c]}
  BY DEF Collect, Finish, Panic, threadVars, workVars
<1>2. job[c] \in 1..found /\ InHand(job[c])
  BY <1>1 DEF IInv, Hands, NoneLost, InHand
<1>3. \A f : InChannel(f)' <=> InChannel(f)
  BY <1>1 DEF InChannel
<1>4. \A f \in 1..found : InHand(f)' => InHand(f) /\ f \notin processed'
  <2> SUFFICES ASSUME NEW f \in 1..found, NEW d \in Consumers, job'[d] = f
               PROVE  job[d] = f /\ f \notin processed'
    BY DEF InHand
  <2>1. job[d] = f
    BY <1>1 DEF IInv, TypeOK
  <2>2. f \notin processed
    BY <2>1 DEF Once, OnePlace, InHand
  <2>3. processed' # processed => d # c
    BY <1>1 DEF IInv, TypeOK
  <2>4. job[c] = f => c = d
    BY <2>1 DEF Once, OneHolder
  <2>5. QED
    BY <1>1, <2>1, <2>2, <2>3, <2>4
<1>5. ~InChannel(job[c])
  BY <1>2 DEF Once, OnePlace
<1>6. OnePlace'
  BY <1>1, <1>2, <1>3, <1>4, <1>5 DEF Once, OnePlace
<1>7. OneMessage' /\ OneHolder'
  BY <1>1 DEF Once, OneMessage, OneHolder, IInv, TypeOK
<1>8. QED
  BY <1>6, <1>7 DEF Once

LEMMA PoisonKeepsOnce == ASSUME IInv, Once, Poison PROVE Once'
<1> USE WorkersFact, ConcurrentRunnerAssumption
<1>1. /\ channel' = Append(channel, Pill) /\ Pill \in Msgs /\ channel \in Seq(Msgs)
      /\ UNCHANGED <<threadVars, workVars>>
  BY DEF Poison, IInv, TypeOK, Msgs
<1>2. /\ DOMAIN channel' = 1..Len(channel) + 1 /\ DOMAIN channel = 1..Len(channel)
      /\ \A i \in DOMAIN channel : channel'[i] = channel[i]
      /\ channel'[Len(channel) + 1] = Pill /\ Len(channel) \in Nat
  BY <1>1, Appended
<1>3. \A f \in 1..found : (InChannel(f)' => InChannel(f)) /\ (InHand(f)' <=> InHand(f))
  BY <1>1, <1>2 DEF InChannel, InHand, threadVars, IInv, TypeOK
<1>4. OnePlace'
  BY <1>1, <1>3 DEF Once, OnePlace, workVars
<1>5. OneMessage' /\ OneHolder'
  BY <1>1, <1>2 DEF Once, OneMessage, OneHolder, threadVars
<1>6. QED
  BY <1>4, <1>5 DEF Once

LEMMA OthersKeepOnce ==
    ASSUME Once, UNCHANGED <<channel, job, workVars>>
    PROVE  Once'
BY DEF Once, OnePlace, OneMessage, OneHolder, InChannel, InHand, workVars

LEMMA NextKeepsOnce == IInv /\ Once /\ [Next]_vars => Once'
<1> SUFFICES ASSUME IInv, Once, [Next]_vars PROVE Once'
  OBVIOUS
<1>1. ASSUME UNCHANGED vars PROVE UNCHANGED <<channel, job, workVars>>
  BY <1>1 DEF vars, threadVars
<1>2. ASSUME EndWalk \/ MainStep, ~Poison PROVE UNCHANGED <<channel, job, workVars>>
  BY <1>2 DEF EndWalk, MainStep, SpawnProducer, SpawnConsumer, JoinProducer, Reap, threadVars
<1>3. ASSUME NEW c \in Consumers, Disconnect(c) PROVE UNCHANGED <<channel, job, workVars>>
  BY <1>3 DEF Disconnect
<1>4. QED
  BY <1>1, <1>2, <1>3, SendKeepsOnce, ReceiveKeepsOnce, WorkKeepsOnce, PoisonKeepsOnce,
     OthersKeepOnce DEF Next, ProducerStep, ConsumerStep, MainStep

LEMMA OnceIsEachFileOnce == IInv /\ Once => EachFileOnce
BY DEF IInv, NoneLost, Once, OnePlace, OneMessage, OneHolder, EachFileOnce

-----------------------------------------------------------------------------

LEMMA Inductive == Spec => []IInv
BY InitEstablishes, NextPreserves, PTL DEF Spec

(* The channel, the threads and run() keep their types.                     *)
THEOREM RunnerTypeCorrect == Spec => []TypeOK
BY Inductive, PTL DEF IInv

(* No consumer finds its pill ahead of a file.                              *)
THEOREM WorkBeforePills == Spec => []PillsComeLast
BY Inductive, PTL DEF IInv

(* run() says Ok only over a complete list, for any number of jobs, files   *)
(* and failures.                                                            *)
THEOREM OkMeansComplete == Spec => []OkIsComplete
BY Inductive, IInvOkIsComplete, PTL

(* No file is lost but with the thread that panicked over it, and none is   *)
(* analysed or reported twice, for any number of jobs and files.            *)
THEOREM NoFileLostOrTwice == Spec => []EachFileOnce
<1>1. Init => Once
  BY DEF Init, Once, OnePlace, OneMessage, OneHolder, InChannel
<1>2. QED
  BY <1>1, Inductive, NextKeepsOnce, OnceIsEachFileOnce, PTL DEF Spec

-----------------------------------------------------------------------------
Space == [first : Nat, start : Int, lines : SUBSET Int,
          only : Int, beside : Int, commentEnd : Int]

Sound(s) ==
    /\ s \in Space
    /\ s.only >= 0
    /\ s.commentEnd # Lines!NoRow /\ s.commentEnd \notin s.lines => s.only >= 1

OpenAreSound ==
    /\ spaces \in Seq(Space)
    /\ spaces # <<>>
    /\ \A i \in DOMAIN spaces : Sound(spaces[i])

CountedAreSound == \A c \in counted : Sound(c.space)

LineInv == OpenAreSound /\ CountedAreSound /\ file \in Seq(Lines!Tokens)

(* What `-= 1' is applied to is never zero.                                 *)
NeverUnderflows ==
    /\ \A i \in DOMAIN spaces : spaces[i].only >= 0
    /\ \A c \in counted : c.space.only >= 0

-----------------------------------------------------------------------------

LEMMA TokenRows ==
    ASSUME NEW t \in Lines!Tokens
    PROVE  t.start \in Int /\ t.end \in Int /\ t.start <= t.end /\ t.start >= 0
BY DEF Lines!Tokens, Lines!Rows

LEMMA NewSpaceSound ==
    ASSUME NEW i \in Nat, NEW row \in Int
    PROVE  Sound(Lines!NewSpace(i, row))
BY DEF Sound, Lines!NewSpace, Space, Lines!NoRow

LEMMA AddCommentSound ==
    ASSUME NEW s, Sound(s), NEW t \in Lines!Tokens
    PROVE  Sound(Lines!AddComment(s, t))
<1>1. t.start \in Int /\ t.end \in Int /\ t.start <= t.end
  BY TokenRows
<1>. DEFINE more == t.end - t.start
<1>2. more \in Int /\ more >= 0 /\ s \in Space
  BY <1>1 DEF Sound
<1>. HIDE DEF more
<1>3. /\ s.only \in Int /\ s.beside + 1 \in Int
      /\ s.only + more \in Int /\ s.only + more + 1 \in Int
  BY <1>2 DEF Space
<1>5. CASE t.start \in s.lines
  <2>1. Lines!AddComment(s, t) = [s EXCEPT !.beside = @ + 1, !.only = @ + more]
    BY <1>5 DEF Lines!AddComment, more
  <2>2. /\ Lines!AddComment(s, t) \in Space
        /\ Lines!AddComment(s, t).only = s.only + more
        /\ Lines!AddComment(s, t).lines = s.lines
        /\ Lines!AddComment(s, t).commentEnd = s.commentEnd
    BY <1>2, <1>3, <2>1 DEF Space
  <2>. QED  BY <1>2, <1>3, <2>2 DEF Sound
<1>4. CASE t.start \notin s.lines
  <2>1. Lines!AddComment(s, t) = [s EXCEPT !.only = @ + more + 1, !.commentEnd = t.end]
    BY <1>4 DEF Lines!AddComment, more
  <2>2. /\ Lines!AddComment(s, t) \in Space
        /\ Lines!AddComment(s, t).only = s.only + more + 1
    BY <1>1, <1>2, <1>3, <2>1 DEF Space
  <2>. QED  BY <1>2, <1>3, <2>2 DEF Sound
<1>. QED  BY <1>4, <1>5

(* The step that subtracts.                                                 *)
LEMMA AddCodeSound ==
    ASSUME NEW s, Sound(s), NEW t \in Lines!Tokens
    PROVE  Sound(Lines!AddCode(s, t))
<1>1. t.start \in Int /\ t.end \in Int /\ t.start <= t.end /\ t.start # Lines!NoRow
  BY TokenRows DEF Lines!NoRow
<1>. DEFINE before == Lines!CommentBeforeCode(s, t.start)
            rows == IF t.kind = "macro" THEN t.start..t.end ELSE {t.start}
<1>2. rows \subseteq Int /\ t.start \in rows
  BY <1>1
<1>3. before \in Space /\ before.only >= 0 /\ before.lines = s.lines
      /\ before.commentEnd = s.commentEnd
  <2>1. s \in Space /\ s.only \in Int /\ s.beside \in Int /\ s.only >= 0
    BY DEF Sound, Space
  <2>2. CASE s.commentEnd = t.start /\ t.start \notin s.lines
    <3>1. before = [s EXCEPT !.only = @ - 1, !.beside = @ + 1]
      BY <2>2 DEF Lines!CommentBeforeCode
    <3>2. s.only >= 1
      BY <1>1, <2>2 DEF Sound
    <3>3. /\ before \in Space /\ before.only = s.only - 1
          /\ before.lines = s.lines /\ before.commentEnd = s.commentEnd
      <4>. s.only - 1 \in Int /\ s.beside + 1 \in Int
        BY <2>1
      <4>. QED  BY <2>1, <3>1 DEF Space
    <3>. QED  BY <2>1, <3>2, <3>3
  <2>3. CASE ~(s.commentEnd = t.start /\ t.start \notin s.lines)
    BY <2>1, <2>3 DEF Lines!CommentBeforeCode
  <2>. QED  BY <2>2, <2>3
<1>4. s.commentEnd # t.start => before = s
  BY DEF Lines!CommentBeforeCode
<1>5. Lines!AddCode(s, t) = [before EXCEPT !.lines = s.lines \cup rows]
  BY <1>3 DEF Lines!AddCode
<1>6. Lines!AddCode(s, t) \in Space
  BY <1>2, <1>3, <1>5 DEF Space
<1>7. /\ Lines!AddCode(s, t).only = before.only
      /\ Lines!AddCode(s, t).lines = s.lines \cup rows
      /\ Lines!AddCode(s, t).commentEnd = s.commentEnd
  BY <1>3, <1>5 DEF Space
<1>. QED  BY <1>2, <1>3, <1>4, <1>6, <1>7 DEF Sound

LEMMA ComputeSound ==
    ASSUME NEW s, Sound(s), NEW t \in Lines!Tokens
    PROVE  Sound(Lines!Compute(s, t))
BY AddCommentSound, AddCodeSound DEF Lines!Compute

LEMMA MergeSound ==
    ASSUME NEW outer, NEW inner, Sound(outer), Sound(inner)
    PROVE  Sound(Lines!Merge(outer, inner))
<1>1. /\ outer \in Space /\ inner \in Space /\ outer.only \in Int /\ inner.only \in Int
      /\ outer.only >= 0 /\ inner.only >= 0
  BY DEF Sound, Space
<1>2. outer.lines \cup inner.lines \in SUBSET Int
      /\ outer.beside + inner.beside \in Int /\ outer.only + inner.only \in Int
  BY <1>1 DEF Space
<1>3. /\ Lines!Merge(outer, inner) \in Space
      /\ Lines!Merge(outer, inner).only = outer.only + inner.only
      /\ Lines!Merge(outer, inner).lines = outer.lines \cup inner.lines
      /\ Lines!Merge(outer, inner).commentEnd = outer.commentEnd
  BY <1>1, <1>2 DEF Lines!Merge, Space
<1>4. outer.commentEnd # Lines!NoRow /\ outer.commentEnd \notin outer.lines => outer.only >= 1
  BY DEF Sound
<1>. QED  BY <1>1, <1>3, <1>4 DEF Sound

LEMMA SoundIsSpace == ASSUME NEW s, Sound(s) PROVE s \in Space
BY DEF Sound

-----------------------------------------------------------------------------

LEMMA InitSound == Lines!Init => LineInv
<1>. SUFFICES ASSUME Lines!Init PROVE LineInv
  OBVIOUS
<1>1. Sound(Lines!NewSpace(0, 0))
  BY NewSpaceSound
<1>2. spaces = <<Lines!NewSpace(0, 0)>> /\ counted = {} /\ file = <<>>
  BY DEF Lines!Init
<1>. QED  BY <1>1, <1>2, SoundIsSpace DEF LineInv, OpenAreSound, CountedAreSound

(* A sequence of sound spaces with its last replaced, or one more.          *)
LEMMA AppendSound ==
    ASSUME NEW ss \in Seq(Space), NEW s, Sound(s), \A i \in DOMAIN ss : Sound(ss[i])
    PROVE  /\ Append(ss, s) \in Seq(Space)
           /\ Append(ss, s) # <<>>
           /\ Lines!Last(Append(ss, s)) = s
           /\ Lines!Front(Append(ss, s)) = ss
           /\ \A i \in DOMAIN Append(ss, s) : Sound(Append(ss, s)[i])
<1>1. s \in Space
  BY SoundIsSpace
<1>2. Append(ss, s) \in Seq(Space) /\ Append(ss, s) # <<>> /\ Len(Append(ss, s)) = Len(ss) + 1
      /\ (\A i \in 1..Len(ss) : Append(ss, s)[i] = ss[i]) /\ Append(ss, s)[Len(ss) + 1] = s
  BY <1>1, AppendProperties
<1>3. Lines!Last(Append(ss, s)) = s
  BY <1>1, <1>2 DEF Lines!Last
<1>4. Lines!Front(Append(ss, s)) = ss
  <2>1. Lines!Front(Append(ss, s)) = SubSeq(Append(ss, s), 1, Len(ss))
    BY <1>2 DEF Lines!Front
  <2>2. \A i \in 1..Len(ss) : Append(ss, s)[i] \in Space
    BY <1>2
  <2>3. /\ SubSeq(Append(ss, s), 1, Len(ss)) \in Seq(Space)
        /\ Len(SubSeq(Append(ss, s), 1, Len(ss))) = Len(ss)
        /\ \A i \in 1..Len(ss) : SubSeq(Append(ss, s), 1, Len(ss))[i] = ss[i]
    BY <1>2, <2>2, SubSeqProperties
  <2>. QED  BY <2>1, <2>3, SeqEqual
<1>5. \A i \in DOMAIN Append(ss, s) : Sound(Append(ss, s)[i])
  BY <1>1, <1>2
<1>. QED  BY <1>2, <1>3, <1>4, <1>5

LEMMA FrontSound ==
    ASSUME NEW ss \in Seq(Space), ss # <<>>, \A i \in DOMAIN ss : Sound(ss[i])
    PROVE  /\ Lines!Front(ss) \in Seq(Space)
           /\ Len(Lines!Front(ss)) = Len(ss) - 1
           /\ \A i \in DOMAIN Lines!Front(ss) : Sound(Lines!Front(ss)[i])
           /\ Sound(Lines!Last(ss))
<1>1. /\ Lines!Front(ss) \in Seq(Space)
      /\ Len(Lines!Front(ss)) = Len(ss) - 1
      /\ \A i \in 1..(Len(ss) - 1) : Lines!Front(ss)[i] = ss[i]
  <2>1. Len(ss) \in Nat /\ Len(ss) >= 1 /\ \A i \in 1..(Len(ss) - 1) : ss[i] \in Space
    OBVIOUS
  <2>. DEFINE n == Len(ss) - 1
  <2>2. n \in Int /\ n >= 0
    BY <2>1
  <2>3. \A i \in 1..n : ss[i] \in Space
    BY <2>1
  <2>. HIDE DEF n
  <2>4. /\ SubSeq(ss, 1, n) \in Seq(Space)
        /\ Len(SubSeq(ss, 1, n)) = n
        /\ \A i \in 1..n : SubSeq(ss, 1, n)[i] = ss[i]
    BY <2>2, <2>3, SubSeqProperties
  <2>. QED  BY <2>4 DEF Lines!Front, n
<1>2. \A i \in DOMAIN Lines!Front(ss) : Lines!Front(ss)[i] = ss[i] /\ i \in DOMAIN ss
  BY <1>1
<1>3. Len(ss) \in DOMAIN ss
  OBVIOUS
<1>. QED  BY <1>1, <1>2, <1>3 DEF Lines!Last

LEMMA CountSound ==
    ASSUME LineInv, NEW t \in Lines!Tokens, Lines!Count(t)
    PROVE  LineInv'
<1>. DEFINE i == Len(file) + 1
            inner == IF t.kind = "open" THEN Append(spaces, Lines!NewSpace(i, t.start)) ELSE spaces
            here == Lines!Compute(Lines!Last(inner), t)
            around == Lines!Front(inner)
<1>1. i \in Nat /\ t.start \in Int
  BY TokenRows DEF LineInv
<1>2. inner \in Seq(Space) /\ inner # <<>> /\ \A k \in DOMAIN inner : Sound(inner[k])
  BY <1>1, NewSpaceSound, AppendSound DEF LineInv, OpenAreSound
<1>3. Sound(Lines!Last(inner)) /\ around \in Seq(Space) /\ \A k \in DOMAIN around : Sound(around[k])
  BY <1>2, FrontSound
<1>4. Sound(here)
  BY <1>3, ComputeSound
<1>5. file' \in Seq(Lines!Tokens)
  BY DEF Lines!Count, LineInv
<1>. HIDE DEF here, around
<1>6. CASE t.kind = "close"
  <2>1. /\ spaces' = Append(Lines!Front(around), Lines!Merge(Lines!Last(around), here))
        /\ counted' = counted \cup {[space |-> here, last |-> i]}
    BY <1>6 DEF Lines!Count, here, around
  <2>2. around # <<>>
    <3>1. inner = spaces /\ Len(spaces) > 1
      BY <1>6 DEF Lines!Count, Lines!Follows
    <3>. QED  BY <1>2, <3>1, FrontSound DEF around
  <2>3. /\ Lines!Front(around) \in Seq(Space)
        /\ \A k \in DOMAIN Lines!Front(around) : Sound(Lines!Front(around)[k])
        /\ Sound(Lines!Merge(Lines!Last(around), here))
    BY <1>3, <1>4, <2>2, FrontSound, MergeSound
  <2>4. OpenAreSound'
    BY <2>1, <2>3, AppendSound DEF OpenAreSound
  <2>5. CountedAreSound'
    BY <1>4, <2>1 DEF LineInv, CountedAreSound
  <2>. QED  BY <1>5, <2>4, <2>5 DEF LineInv
<1>7. CASE t.kind # "close"
  <2>1. spaces' = Append(around, here) /\ counted' = counted
    BY <1>7 DEF Lines!Count, here, around
  <2>2. OpenAreSound'
    BY <1>3, <1>4, <2>1, AppendSound DEF OpenAreSound
  <2>. QED  BY <1>5, <2>1, <2>2 DEF LineInv, CountedAreSound
<1>. QED  BY <1>6, <1>7

LEMMA ReturnSound == ASSUME LineInv, Lines!Return PROVE LineInv'
<1>1. /\ counted' = counted \cup {[space |-> spaces[1], last |-> Len(file)]}
      /\ spaces' = spaces /\ file' = file
  BY DEF Lines!Return
<1>2. 1 \in DOMAIN spaces
  BY DEF LineInv, OpenAreSound
<1>. QED  BY <1>1, <1>2 DEF LineInv, OpenAreSound, CountedAreSound

LEMMA LineInvHolds == Lines!Spec => []LineInv
<1>1. LineInv /\ [Lines!Next]_Lines!vars => LineInv'
  <2>. SUFFICES ASSUME LineInv, [Lines!Next]_Lines!vars PROVE LineInv'
    OBVIOUS
  <2>1. CASE UNCHANGED Lines!vars
    BY <2>1 DEF Lines!vars, LineInv, OpenAreSound, CountedAreSound
  <2>. QED  BY <2>1, CountSound, ReturnSound DEF Lines!Next
<1>. QED  BY <1>1, InitSound, PTL DEF Lines!Spec

(* A comment is never taken back that is not counted: only_comment_lines,   *)
(* an unsigned count, does not wrap around.                                 *)
THEOREM CommentsNeverUnderflow == Lines!Spec => []NeverUnderflows
<1>1. LineInv => NeverUnderflows
  BY DEF LineInv, OpenAreSound, CountedAreSound, NeverUnderflows, Sound
<1>. QED  BY <1>1, LineInvHolds, PTL

-----------------------------------------------------------------------------
(* The rows of code and of comments among the nodes from one to another.    *)
CodeAt(f, i, row) ==
    /\ f[i].kind # "comment"
    /\ row = f[i].start \/ (f[i].kind = "macro" /\ row \in f[i].start..f[i].end)
CommentAt(f, i, row) == f[i].kind = "comment" /\ row \in f[i].start..f[i].end
CodeOf(f, a, b) == {row \in Int : \E i \in a..b : CodeAt(f, i, row)}
CommentOf(f, a, b) == {row \in Int : \E i \in a..b : CommentAt(f, i, row)}

InOrder(f) == \A i, j \in DOMAIN f : i < j => f[i].end <= f[j].start

(* An ordinary file, node by node.                                          *)
Tidy(f) ==
    /\ \A i \in DOMAIN f : f[i].kind # "text"
    /\ \A i, j \in DOMAIN f :
          f[i].kind = "comment" /\ f[j].kind = "comment" /\ i < j => f[i].end < f[j].start
    /\ \A i, j \in DOMAIN f :
          f[i].kind = "comment" /\ i < j /\ f[j].start = f[i].end =>
              /\ f[j].kind # "open"
              /\ f[i].start = f[i].end \/ \A h \in 1..(i - 1) : f[h].end < f[i].start

(* Code on the row a comment ends on will find it remembered, if it is the  *)
(* first: otherwise the row is code already, the comment began beside code, *)
(* or the file has gone on to later rows.                                   *)
Remembered(f, s, a, b) ==
    \A i \in a..b : f[i].kind = "comment" =>
        \/ s.commentEnd = f[i].end
        \/ f[i].end \in s.lines
        \/ f[i].start < f[i].end /\ \E h \in a..b : h < i /\ f[h].end = f[i].start
        \/ \E j \in a..b : f[i].end < f[j].end

RowsFit(f, s, a, b) ==
    /\ s.lines = CodeOf(f, a, b)
    /\ s.commentEnd # Lines!NoRow =>
          \E i \in a..b : f[i].kind = "comment" /\ f[i].end = s.commentEnd
    /\ Tidy(f) =>
          /\ s.only = Cardinality(CommentOf(f, a, b) \ CodeOf(f, a, b))
          /\ Remembered(f, s, a, b)

-----------------------------------------------------------------------------

LEMMA HowManyRows ==
    ASSUME NEW first \in Int, NEW last \in Int, first <= last + 1
    PROVE  IsFiniteSet(first..last) /\ Cardinality(first..last) = (last - first) + 1
<1>1. IsFiniteSet(first..last) /\ Cardinality(first..last) = IF first > last THEN 0 ELSE last - first + 1
  BY FS_Interval
<1>2. CASE first > last
  <2>1. (last - first) + 1 = 0
    BY <1>2
  <2>. QED  BY <1>1, <1>2, <2>1
<1>3. CASE ~(first > last)
  <2>1. last - first + 1 = (last - first) + 1
    OBVIOUS
  <2>. QED  BY <1>1, <1>3, <2>1
<1>. QED  BY <1>2, <1>3

LEMMA CountedApart ==
    ASSUME NEW S, IsFiniteSet(S), NEW T, IsFiniteSet(T), S \cap T = {}
    PROVE  /\ Cardinality(S) \in Nat /\ Cardinality(T) \in Nat /\ IsFiniteSet(S \cup T)
           /\ Cardinality(S \cup T) = Cardinality(S) + Cardinality(T)
<1>1. Cardinality(S) \in Nat /\ Cardinality(T) \in Nat
  BY FS_CardinalityType
<1>2. Cardinality(S \cap T) = 0
  BY FS_EmptySet
<1>3. /\ IsFiniteSet(S \cup T)
      /\ Cardinality(S \cup T) = Cardinality(S) + Cardinality(T) - Cardinality(S \cap T)
  BY FS_Union
<1>. QED  BY <1>1, <1>2, <1>3

LEMMA NodeRows ==
    ASSUME NEW f \in Seq(Lines!Tokens), NEW i \in DOMAIN f
    PROVE  /\ f[i] \in Lines!Tokens /\ f[i].start \in Int /\ f[i].end \in Int /\ f[i].start >= 0
           /\ f[i].start <= f[i].end
           /\ f[i].kind \in {"code", "open", "close"} => f[i].start = f[i].end
BY TokenRows DEF Lines!Tokens, Lines!ManyRows

(* Of the nodes up to one, none goes beyond the row it ends on.             *)
LEMMA RowsBefore ==
    ASSUME NEW f \in Seq(Lines!Tokens), InOrder(f), NEW j \in DOMAIN f, NEW i \in DOMAIN f, i < j
    PROVE  f[i].start <= f[i].end /\ f[i].end <= f[j].start /\ f[j].start <= f[j].end
BY NodeRows DEF InOrder

LEMMA RowsAreFinite ==
    ASSUME NEW f \in Seq(Lines!Tokens), InOrder(f), NEW a \in Nat, NEW b \in Nat, a >= 1, b <= Len(f)
    PROVE  /\ IsFiniteSet(CodeOf(f, a, b)) /\ IsFiniteSet(CommentOf(f, a, b))
           /\ IsFiniteSet(CommentOf(f, a, b) \ CodeOf(f, a, b))
           /\ \A row \in CodeOf(f, a, b) \cup CommentOf(f, a, b) :
                 row \in Int /\ f[a].start <= row /\ row <= f[b].end
<1>0. DOMAIN f = 1..Len(f) /\ Len(f) \in Nat /\ \A i \in a..b : i \in DOMAIN f /\ a \in DOMAIN f /\ b \in DOMAIN f
  OBVIOUS
<1>1. ASSUME NEW i \in a..b PROVE f[a].start <= f[i].start /\ f[i].end <= f[b].end
  <2>1. a = i \/ a < i
    OBVIOUS
  <2>2. i = b \/ i < b
    OBVIOUS
  <2>3. f[a].start <= f[i].start
    BY <1>0, <2>1, NodeRows, RowsBefore
  <2>4. f[i].end <= f[b].end
    BY <1>0, <2>2, NodeRows, RowsBefore
  <2>. QED  BY <2>3, <2>4
<1>2. \A i \in a..b : \A row \in Int :
         CodeAt(f, i, row) \/ CommentAt(f, i, row) => f[i].start <= row /\ row <= f[i].end
  BY <1>0, NodeRows DEF CodeAt, CommentAt
<1>3. \A row \in CodeOf(f, a, b) \cup CommentOf(f, a, b) :
         row \in Int /\ f[a].start <= row /\ row <= f[b].end
  <2>. SUFFICES ASSUME NEW row \in Int, NEW i \in a..b, CodeAt(f, i, row) \/ CommentAt(f, i, row)
                PROVE  f[a].start <= row /\ row <= f[b].end
    BY DEF CodeOf, CommentOf
  <2>1. f[i].start <= row /\ row <= f[i].end
    BY <1>2
  <2>. QED  BY <1>0, <1>1, <2>1, NodeRows
<1>4. CASE a <= b
  <2>1. f[a].start \in Int /\ f[b].end \in Int
    BY <1>0, <1>4, NodeRows
  <2>2. CodeOf(f, a, b) \cup CommentOf(f, a, b) \subseteq f[a].start..f[b].end
    BY <1>3, <2>1
  <2>3. IsFiniteSet(f[a].start..f[b].end)
    BY <2>1, FS_Interval
  <2>4. /\ CodeOf(f, a, b) \in SUBSET (f[a].start..f[b].end)
        /\ CommentOf(f, a, b) \in SUBSET (f[a].start..f[b].end)
        /\ CommentOf(f, a, b) \ CodeOf(f, a, b) \in SUBSET (f[a].start..f[b].end)
    BY <2>2
  <2>5. /\ IsFiniteSet(CodeOf(f, a, b)) /\ IsFiniteSet(CommentOf(f, a, b))
        /\ IsFiniteSet(CommentOf(f, a, b) \ CodeOf(f, a, b))
    BY <2>3, <2>4, FS_Subset
  <2>. QED  BY <1>3, <2>5
<1>5. CASE ~(a <= b)
  <2>1. CodeOf(f, a, b) = {} /\ CommentOf(f, a, b) = {} /\ CommentOf(f, a, b) \ CodeOf(f, a, b) = {}
    BY <1>5 DEF CodeOf, CommentOf
  <2>. QED  BY <1>3, <2>1, FS_EmptySet
<1>. QED  BY <1>4, <1>5

LEMMA OneMoreNode ==
    ASSUME NEW f \in Seq(Lines!Tokens), NEW t \in Lines!Tokens
    PROVE  /\ Append(f, t) \in Seq(Lines!Tokens) /\ Len(f) \in Nat
           /\ DOMAIN f = 1..Len(f) /\ DOMAIN Append(f, t) = 1..(Len(f) + 1)
           /\ Append(f, t)[Len(f) + 1] = t
           /\ \A i \in 1..Len(f) : Append(f, t)[i] = f[i]
OBVIOUS

LEMMA TidyBefore ==
    ASSUME NEW f \in Seq(Lines!Tokens), NEW t \in Lines!Tokens, Tidy(Append(f, t))
    PROVE  Tidy(f)
<1>. DEFINE g == Append(f, t)
<1>1. /\ DOMAIN f \subseteq DOMAIN g /\ \A i \in DOMAIN f : g[i] = f[i] /\ i \in DOMAIN g
      /\ \A i \in DOMAIN f : 1..(i - 1) \subseteq DOMAIN f
  BY OneMoreNode
<1>2. Tidy(g)
  OBVIOUS
<1>. HIDE DEF g
<1>3. \A i \in DOMAIN f : f[i].kind # "text"
  BY <1>1, <1>2 DEF Tidy
<1>4. \A i, j \in DOMAIN f :
          f[i].kind = "comment" /\ f[j].kind = "comment" /\ i < j => f[i].end < f[j].start
  BY <1>1, <1>2 DEF Tidy
<1>5. ASSUME NEW i \in DOMAIN f, NEW j \in DOMAIN f,
             f[i].kind = "comment", i < j, f[j].start = f[i].end
      PROVE  /\ f[j].kind # "open"
             /\ f[i].start = f[i].end \/ \A h \in 1..(i - 1) : f[h].end < f[i].start
  <2>1. /\ g[j].kind # "open"
        /\ g[i].start = g[i].end \/ \A h \in 1..(i - 1) : g[h].end < g[i].start
    BY <1>1, <1>2, <1>5 DEF Tidy
  <2>. QED  BY <1>1, <2>1
<1>. QED  BY <1>3, <1>4, <1>5 DEF Tidy

(* What was counted of the nodes so far stays right as more are met.        *)
LEMMA StillFits ==
    ASSUME NEW f \in Seq(Lines!Tokens), NEW t \in Lines!Tokens, NEW s, NEW a \in Nat, NEW b \in Nat,
           a >= 1, b <= Len(f), RowsFit(f, s, a, b)
    PROVE  RowsFit(Append(f, t), s, a, b)
<1>. DEFINE g == Append(f, t)
<1>1. \A i \in a..b : g[i] = f[i]
  BY OneMoreNode
<1>2. Tidy(g) => Tidy(f)
  BY TidyBefore
<1>. HIDE DEF g
<1>3. CodeOf(g, a, b) = CodeOf(f, a, b) /\ CommentOf(g, a, b) = CommentOf(f, a, b)
  BY <1>1 DEF CodeOf, CommentOf, CodeAt, CommentAt
<1>4. Remembered(f, s, a, b) => Remembered(g, s, a, b)
  BY <1>1 DEF Remembered
<1>5. (\E i \in a..b : f[i].kind = "comment" /\ f[i].end = s.commentEnd)
        => \E i \in a..b : g[i].kind = "comment" /\ g[i].end = s.commentEnd
  BY <1>1
<1>6. RowsFit(g, s, a, b)
  BY <1>2, <1>3, <1>4, <1>5 DEF RowsFit
<1>. QED  BY <1>6 DEF g

RowsOfNode(t) == IF t.kind = "macro" THEN t.start..t.end ELSE {t.start}

(* What the next node adds.                                                 *)
LEMMA NextRows ==
    ASSUME NEW f \in Seq(Lines!Tokens), NEW t \in Lines!Tokens, NEW a \in Nat, a >= 1, a <= Len(f) + 1,
           InOrder(Append(f, t))
    PROVE  /\ t.kind = "comment" =>
                /\ CodeOf(Append(f, t), a, Len(f) + 1) = CodeOf(f, a, Len(f))
                /\ CommentOf(Append(f, t), a, Len(f) + 1) = CommentOf(f, a, Len(f)) \cup (t.start..t.end)
           /\ t.kind # "comment" =>
                /\ CodeOf(Append(f, t), a, Len(f) + 1) = CodeOf(f, a, Len(f)) \cup RowsOfNode(t)
                /\ CommentOf(Append(f, t), a, Len(f) + 1) = CommentOf(f, a, Len(f))
           /\ \A i \in a..Len(f) : f[i].start <= f[i].end /\ f[i].end <= t.start /\ f[i].end \in Int
           /\ \A row \in CodeOf(f, a, Len(f)) \cup CommentOf(f, a, Len(f)) : row \in Int /\ row <= t.start
<1>. DEFINE g == Append(f, t)
            n == Len(f) + 1
<1>1. /\ g \in Seq(Lines!Tokens) /\ Len(f) \in Nat /\ n \in Nat /\ g[n] = t /\ n \in DOMAIN g
      /\ \A i \in a..Len(f) : i \in DOMAIN f /\ i \in DOMAIN g /\ g[i] = f[i] /\ i < n
      /\ \A i \in a..n : i \in a..Len(f) \/ i = n
      /\ \A i \in a..Len(f) : i \in a..n
      /\ n \in a..n
  BY OneMoreNode
<1>2. t.start \in Int /\ t.end \in Int /\ t.start <= t.end
  BY TokenRows
<1>3. \A i \in a..Len(f) : f[i].start <= f[i].end /\ f[i].end <= t.start /\ f[i].end \in Int
  <2>1. \A i \in a..Len(f) : g[i].end <= g[n].start
    BY <1>1 DEF InOrder
  <2>. QED  BY <1>1, <2>1, NodeRows
<1>4. \A row \in CodeOf(f, a, Len(f)) \cup CommentOf(f, a, Len(f)) : row \in Int /\ row <= t.start
  <2>. SUFFICES ASSUME NEW row \in Int, NEW i \in a..Len(f), CodeAt(f, i, row) \/ CommentAt(f, i, row)
                PROVE  row <= t.start
    BY DEF CodeOf, CommentOf
  <2>1. row <= f[i].end
    BY <1>1, <1>3, NodeRows DEF CodeAt, CommentAt
  <2>. QED  BY <1>2, <1>3, <2>1
<1>. HIDE DEF g, n
<1>5. \A i \in a..Len(f) : \A row : (CodeAt(g, i, row) <=> CodeAt(f, i, row))
                                 /\ (CommentAt(g, i, row) <=> CommentAt(f, i, row))
  BY <1>1 DEF CodeAt, CommentAt
<1>6. \A row : (CodeAt(g, n, row) <=> t.kind # "comment" /\ row \in RowsOfNode(t))
             /\ (CommentAt(g, n, row) <=> t.kind = "comment" /\ row \in t.start..t.end)
  BY <1>1, <1>2 DEF CodeAt, CommentAt, RowsOfNode
<1>7. RowsOfNode(t) \subseteq Int /\ t.start..t.end \subseteq Int
  BY <1>2 DEF RowsOfNode
<1>8. /\ CodeOf(g, a, n) = CodeOf(f, a, Len(f)) \cup IF t.kind = "comment" THEN {} ELSE RowsOfNode(t)
      /\ CommentOf(g, a, n) = CommentOf(f, a, Len(f)) \cup IF t.kind = "comment" THEN t.start..t.end ELSE {}
  BY <1>1, <1>5, <1>6, <1>7 DEF CodeOf, CommentOf
<1>. QED  BY <1>3, <1>4, <1>8 DEF g, n

LEMMA CommentFits ==
    ASSUME NEW f \in Seq(Lines!Tokens), NEW t \in Lines!Tokens, NEW a \in Nat, a >= 1, a <= Len(f) + 1,
           InOrder(Append(f, t)), InOrder(f), NEW s \in Space, RowsFit(f, s, a, Len(f)),
           t.kind = "comment"
    PROVE  RowsFit(Append(f, t), Lines!AddComment(s, t), a, Len(f) + 1)
<1>. DEFINE g == Append(f, t)
            n == Len(f) + 1
            code == CodeOf(f, a, Len(f))
            comments == CommentOf(f, a, Len(f))
            new == Lines!AddComment(s, t)
<1>1. /\ g \in Seq(Lines!Tokens) /\ Len(f) \in Nat /\ n \in Nat /\ g[n] = t /\ n \in DOMAIN g
      /\ \A i \in a..Len(f) : i \in DOMAIN g /\ g[i] = f[i] /\ i < n /\ i \in a..n
      /\ \A i \in a..n : i \in a..Len(f) \/ i = n
      /\ n \in a..n
  BY OneMoreNode
<1>2. t.start \in Int /\ t.end \in Int /\ t.start <= t.end
  BY TokenRows
<1>3. /\ CodeOf(g, a, n) = code /\ CommentOf(g, a, n) = comments \cup (t.start..t.end)
      /\ \A i \in a..Len(f) : f[i].start <= f[i].end /\ f[i].end <= t.start /\ f[i].end \in Int
      /\ \A row \in code \cup comments : row \in Int /\ row <= t.start
  BY NextRows
<1>4. IsFiniteSet(comments \ code)
  BY <1>1, RowsAreFinite
<1>5. /\ s.lines = code
      /\ s.commentEnd # Lines!NoRow => \E i \in a..Len(f) : f[i].kind = "comment" /\ f[i].end = s.commentEnd
      /\ Tidy(g) => s.only = Cardinality(comments \ code) /\ Remembered(f, s, a, Len(f))
  BY TidyBefore DEF RowsFit
<1>6. s.only \in Int
  BY DEF Space
<1>7. ASSUME Tidy(g) PROVE \A i \in a..Len(f) : f[i].kind = "comment" => f[i].end < t.start
  BY <1>1, <1>7 DEF Tidy
<1>8. CASE t.start \in code
  <2>1. new.lines = s.lines /\ new.only = s.only + (t.end - t.start) /\ new.commentEnd = s.commentEnd
    BY <1>2, <1>5, <1>6, <1>8 DEF Lines!AddComment, Space
  <2>. HIDE DEF g, n, code, comments, new
  <2>2. new.commentEnd # Lines!NoRow => \E i \in a..n : g[i].kind = "comment" /\ g[i].end = new.commentEnd
    BY <1>1, <1>5, <2>1
  <2>3. CommentOf(g, a, n) \ CodeOf(g, a, n) = (comments \ code) \cup ((t.start + 1)..t.end)
    BY <1>2, <1>3, <1>8
  <2>4. Cardinality((comments \ code) \cup ((t.start + 1)..t.end))
          = Cardinality(comments \ code) + (t.end - t.start)
    <3>. DEFINE next == t.start + 1
                more == next..t.end
                alone == comments \ code
    <3>1. next \in Int /\ next <= t.end + 1 /\ (t.end - next) + 1 = t.end - t.start
      BY <1>2
    <3>2. alone \cap more = {}
      BY <1>2, <1>3
    <3>. HIDE DEF next
    <3>3. IsFiniteSet(more) /\ Cardinality(more) = t.end - t.start
      <4>1. IsFiniteSet(more) /\ Cardinality(more) = (t.end - next) + 1
        BY <1>2, <3>1, HowManyRows
      <4>. QED  BY <3>1, <4>1
    <3>4. IsFiniteSet(alone)
      BY <1>4
    <3>. HIDE DEF more, alone
    <3>5. Cardinality(alone \cup more) = Cardinality(alone) + Cardinality(more)
      BY <3>2, <3>3, <3>4, CountedApart
    <3>. QED  BY <3>3, <3>5 DEF alone, more, next
  <2>5. ASSUME Tidy(g) PROVE Remembered(g, new, a, n)
    <3>1. Remembered(f, s, a, Len(f))
      BY <1>5, <2>5
    <3>2. ASSUME NEW i \in a..Len(f), g[i].kind = "comment"
          PROVE  \/ new.commentEnd = g[i].end
                 \/ g[i].end \in new.lines
                 \/ g[i].start < g[i].end /\ \E h \in a..n : h < i /\ g[h].end = g[i].start
                 \/ \E j \in a..n : g[i].end < g[j].end
      BY <1>1, <2>1, <3>1, <3>2 DEF Remembered
    <3>3. \/ g[n].end \in new.lines
          \/ g[n].start < g[n].end /\ \E h \in a..n : h < n /\ g[h].end = g[n].start
      <4>1. PICK h \in a..Len(f) : CodeAt(f, h, t.start)
        BY <1>8 DEF code, CodeOf
      <4>2. t.start <= f[h].end
        <5>1. f[h].start <= f[h].end /\ f[h].end \in Int
          BY <1>3
        <5>. QED  BY <1>2, <4>1, <5>1 DEF CodeAt
      <4>3. f[h].end = t.start /\ h \in a..n /\ h < n /\ g[h] = f[h]
        BY <1>1, <1>2, <1>3, <4>2
      <4>4. t.start = t.end \/ t.start < t.end
        BY <1>2
      <4>. QED  BY <1>1, <1>5, <1>8, <2>1, <4>3, <4>4
    <3>. QED  BY <1>1, <3>2, <3>3 DEF Remembered
  <2>6. RowsFit(g, new, a, n)
    BY <1>3, <1>5, <2>1, <2>2, <2>3, <2>4, <2>5 DEF RowsFit
  <2>. QED  BY <2>6 DEF g, n, new
<1>9. CASE t.start \notin code
  <2>1. new.lines = s.lines /\ new.only = s.only + (t.end - t.start) + 1 /\ new.commentEnd = t.end
    BY <1>2, <1>5, <1>6, <1>9 DEF Lines!AddComment, Space
  <2>. HIDE DEF g, n, code, comments, new
  <2>2. \E i \in a..n : g[i].kind = "comment" /\ g[i].end = new.commentEnd
    BY <1>1, <2>1
  <2>3. CommentOf(g, a, n) \ CodeOf(g, a, n) = (comments \ code) \cup (t.start..t.end)
    <3>1. \A row \in t.start..t.end : row \notin code
      BY <1>2, <1>3, <1>9
    <3>. QED  BY <1>3, <3>1
  <2>4. ASSUME Tidy(g)
        PROVE  Cardinality((comments \ code) \cup (t.start..t.end))
                 = Cardinality(comments \ code) + (t.end - t.start) + 1
    <3>. DEFINE more == t.start..t.end
                alone == comments \ code
    <3>1. IsFiniteSet(more) /\ Cardinality(more) = (t.end - t.start) + 1
      <4>1. t.start <= t.end + 1
        BY <1>2
      <4>. QED  BY <1>2, <4>1, HowManyRows
    <3>2. \A row \in comments : row < t.start
      <4>. SUFFICES ASSUME NEW row \in Int, NEW i \in a..Len(f), CommentAt(f, i, row)
                    PROVE  row < t.start
        BY DEF comments, CommentOf
      <4>1. f[i].end < t.start /\ f[i].end \in Int /\ row <= f[i].end
        BY <1>3, <1>7, <2>4 DEF CommentAt
      <4>. QED  BY <1>2, <4>1
    <3>3. alone \cap more = {}
      BY <1>2, <1>3, <3>2
    <3>4. IsFiniteSet(alone)
      BY <1>4
    <3>. HIDE DEF alone, more
    <3>5. /\ Cardinality(alone \cup more) = Cardinality(alone) + Cardinality(more)
          /\ Cardinality(alone) \in Nat
      BY <3>1, <3>3, <3>4, CountedApart
    <3>6. Cardinality(alone \cup more) = Cardinality(alone) + (t.end - t.start) + 1
      BY <1>2, <3>1, <3>5
    <3>. QED  BY <3>6 DEF alone, more
  <2>5. ASSUME Tidy(g) PROVE Remembered(g, new, a, n)
    <3>1. Remembered(f, s, a, Len(f))
      BY <1>5, <2>5
    <3>2. ASSUME NEW i \in a..Len(f), g[i].kind = "comment"
          PROVE  \/ new.commentEnd = g[i].end
                 \/ g[i].end \in new.lines
                 \/ g[i].start < g[i].end /\ \E h \in a..n : h < i /\ g[h].end = g[i].start
                 \/ \E j \in a..n : g[i].end < g[j].end
      <4>1. f[i].end < t.start /\ f[i].end \in Int
        BY <1>1, <1>3, <1>7, <2>5, <3>2
      <4>2. g[i].end < g[n].end
        BY <1>1, <1>2, <4>1
      <4>. QED  BY <1>1, <4>2
    <3>3. new.commentEnd = g[n].end
      BY <1>1, <2>1
    <3>. QED  BY <1>1, <3>2, <3>3 DEF Remembered
  <2>6. RowsFit(g, new, a, n)
    BY <1>3, <1>5, <1>6, <2>1, <2>2, <2>3, <2>4, <2>5 DEF RowsFit
  <2>. QED  BY <2>6 DEF g, n, new
<1>. QED  BY <1>8, <1>9

LEMMA AddCodeIs ==
    ASSUME NEW s \in Space, NEW t \in Lines!Tokens
    PROVE  /\ Lines!AddCode(s, t).lines = s.lines \cup RowsOfNode(t)
           /\ Lines!AddCode(s, t).commentEnd = s.commentEnd
           /\ Lines!AddCode(s, t).only =
                IF s.commentEnd = t.start /\ t.start \notin s.lines THEN s.only - 1 ELSE s.only
           /\ Lines!AddCode(s, t).first = s.first /\ Lines!AddCode(s, t).start = s.start
<1>. DEFINE before == Lines!CommentBeforeCode(s, t.start)
<1>1. /\ before.lines = s.lines /\ before.commentEnd = s.commentEnd
      /\ before.first = s.first /\ before.start = s.start
      /\ before.only = IF s.commentEnd = t.start /\ t.start \notin s.lines THEN s.only - 1 ELSE s.only
      /\ Lines!AddCode(s, t) = [before EXCEPT !.lines = before.lines \cup RowsOfNode(t)]
      /\ DOMAIN before = DOMAIN s
  <2>1. CASE s.commentEnd = t.start /\ t.start \notin s.lines
    <3>1. before = [s EXCEPT !.only = @ - 1, !.beside = @ + 1]
      BY <2>1 DEF Lines!CommentBeforeCode
    <3>. QED  BY <2>1, <3>1 DEF Space, Lines!AddCode, RowsOfNode
  <2>2. CASE ~(s.commentEnd = t.start /\ t.start \notin s.lines)
    <3>1. before = s
      BY <2>2 DEF Lines!CommentBeforeCode
    <3>. QED  BY <2>2, <3>1 DEF Space, Lines!AddCode, RowsOfNode
  <2>. QED  BY <2>1, <2>2
<1>. HIDE DEF before
<1>2. DOMAIN before = {"first", "start", "lines", "only", "beside", "commentEnd"}
  BY <1>1 DEF Space
<1>. QED  BY <1>1, <1>2

LEMMA CodeFits ==
    ASSUME NEW f \in Seq(Lines!Tokens), NEW t \in Lines!Tokens, NEW a \in Nat, a >= 1, a <= Len(f) + 1,
           InOrder(Append(f, t)), InOrder(f), NEW s \in Space, RowsFit(f, s, a, Len(f)),
           t.kind # "comment"
    PROVE  RowsFit(Append(f, t), Lines!AddCode(s, t), a, Len(f) + 1)
<1>. DEFINE g == Append(f, t)
            n == Len(f) + 1
            code == CodeOf(f, a, Len(f))
            comments == CommentOf(f, a, Len(f))
            new == Lines!AddCode(s, t)
<1>1. /\ g \in Seq(Lines!Tokens) /\ Len(f) \in Nat /\ n \in Nat /\ g[n] = t /\ n \in DOMAIN g
      /\ \A i \in a..Len(f) : i \in DOMAIN g /\ g[i] = f[i] /\ i < n /\ i \in a..n
      /\ \A i \in a..Len(f) : \A h \in a..Len(f) : h < i => h \in 1..(i - 1) /\ g[h] = f[h]
      /\ \A i \in a..n : i \in a..Len(f) \/ i = n
      /\ n \in a..n
  BY OneMoreNode
<1>2. t.start \in Int /\ t.end \in Int /\ t.start <= t.end /\ t.start # Lines!NoRow
  BY TokenRows DEF Lines!NoRow
<1>3. /\ CodeOf(g, a, n) = code \cup RowsOfNode(t) /\ CommentOf(g, a, n) = comments
      /\ \A i \in a..Len(f) : f[i].start <= f[i].end /\ f[i].end <= t.start /\ f[i].end \in Int
      /\ \A row \in code \cup comments : row \in Int /\ row <= t.start
  BY NextRows
<1>4. IsFiniteSet(comments \ code)
  BY <1>1, RowsAreFinite
<1>5. /\ s.lines = code
      /\ s.commentEnd # Lines!NoRow => \E i \in a..Len(f) : f[i].kind = "comment" /\ f[i].end = s.commentEnd
      /\ Tidy(g) => s.only = Cardinality(comments \ code) /\ Remembered(f, s, a, Len(f))
  BY TidyBefore DEF RowsFit
<1>6. s.only \in Int
  BY DEF Space
<1>7. /\ new.lines = s.lines \cup RowsOfNode(t) /\ new.commentEnd = s.commentEnd
      /\ new.only = IF s.commentEnd = t.start /\ t.start \notin s.lines THEN s.only - 1 ELSE s.only
  BY AddCodeIs
<1>8. \A row \in RowsOfNode(t) : row >= t.start
  BY <1>2 DEF RowsOfNode
<1>9. t.start \in RowsOfNode(t)
  BY <1>2 DEF RowsOfNode
<1>. HIDE DEF g, n, code, comments, new
<1>10. new.commentEnd # Lines!NoRow => \E i \in a..n : g[i].kind = "comment" /\ g[i].end = new.commentEnd
  BY <1>1, <1>5, <1>7
<1>11. CommentOf(g, a, n) \ CodeOf(g, a, n) = (comments \ code) \ {t.start}
  <2>1. \A row \in comments : row \in RowsOfNode(t) <=> row = t.start
    BY <1>2, <1>3, <1>8, <1>9 DEF RowsOfNode
  <2>. QED  BY <1>3, <2>1
(* The first code of a row finds the comment that ends there remembered.    *)
<1>12. ASSUME Tidy(g)
       PROVE  t.start \in comments \ code <=> s.commentEnd = t.start /\ t.start \notin s.lines
  <2>1. ASSUME s.commentEnd = t.start PROVE t.start \in comments
    <3>1. PICK i \in a..Len(f) : f[i].kind = "comment" /\ f[i].end = t.start
      BY <1>2, <1>5, <2>1
    <3>2. CommentAt(f, i, t.start)
      <4>1. f[i].start <= f[i].end /\ f[i].start \in Int
        BY <1>1, <1>3, NodeRows
      <4>. QED  BY <1>2, <3>1, <4>1 DEF CommentAt
    <3>. QED  BY <1>2, <3>2 DEF comments, CommentOf
  <2>2. ASSUME t.start \in comments, t.start \notin code PROVE s.commentEnd = t.start
    <3>1. PICK i \in a..Len(f) : CommentAt(f, i, t.start)
      BY <2>2 DEF comments, CommentOf
    <3>2. f[i].kind = "comment" /\ f[i].end = t.start /\ f[i].start <= f[i].end
      BY <1>2, <1>3, <3>1 DEF CommentAt
    <3>3. \/ s.commentEnd = f[i].end
          \/ f[i].end \in s.lines
          \/ f[i].start < f[i].end /\ \E h \in a..Len(f) : h < i /\ f[h].end = f[i].start
          \/ \E j \in a..Len(f) : f[i].end < f[j].end
      BY <1>5, <1>12, <3>2 DEF Remembered
    <3>4. ~(f[i].end \in s.lines)
      BY <1>5, <2>2, <3>2
    <3>5. ~\E j \in a..Len(f) : f[i].end < f[j].end
      BY <1>2, <1>3, <3>2
    <3>6. ASSUME f[i].start < f[i].end, NEW h \in a..Len(f), h < i, f[h].end = f[i].start PROVE FALSE
      <4>1. g[i].start = g[i].end \/ \A k \in 1..(i - 1) : g[k].end < g[i].start
        <5>1. g[i].kind = "comment" /\ i < n /\ g[n].start = g[i].end /\ i \in DOMAIN g /\ n \in DOMAIN g
          BY <1>1, <3>2
        <5>. QED  BY <1>12, <5>1 DEF Tidy
      <4>2. g[i] = f[i] /\ g[h] = f[h] /\ h \in 1..(i - 1)
        BY <1>1, <3>6
      <4>3. f[i].start \in Int /\ f[i].end \in Int
        BY <1>1, <4>2, NodeRows
      <4>. QED  BY <3>6, <4>1, <4>2, <4>3
    <3>. QED  BY <3>2, <3>3, <3>4, <3>5, <3>6
  <2>. QED  BY <1>5, <2>1, <2>2
<1>13. ASSUME Tidy(g) PROVE new.only = Cardinality((comments \ code) \ {t.start})
  <2>. DEFINE alone == comments \ code
  <2>1. IsFiniteSet(alone) /\ s.only = Cardinality(alone)
    BY <1>4, <1>5, <1>13
  <2>2. new.only = IF t.start \in alone THEN s.only - 1 ELSE s.only
    BY <1>7, <1>12, <1>13
  <2>. HIDE DEF alone
  <2>3. Cardinality(alone \ {t.start}) =
          IF t.start \in alone THEN Cardinality(alone) - 1 ELSE Cardinality(alone)
    BY <2>1, FS_RemoveElement
  <2>4. new.only = Cardinality(alone \ {t.start})
    BY <2>1, <2>2, <2>3
  <2>. QED  BY <2>4 DEF alone
<1>14. ASSUME Tidy(g) PROVE Remembered(g, new, a, n)
  <2>1. Remembered(f, s, a, Len(f))
    BY <1>5, <1>14
  <2>2. ASSUME NEW i \in a..Len(f), g[i].kind = "comment"
        PROVE  \/ new.commentEnd = g[i].end
               \/ g[i].end \in new.lines
               \/ g[i].start < g[i].end /\ \E h \in a..n : h < i /\ g[h].end = g[i].start
               \/ \E j \in a..n : g[i].end < g[j].end
    BY <1>1, <1>7, <2>1, <2>2 DEF Remembered
  <2>. QED  BY <1>1, <2>2 DEF Remembered
<1>15. RowsFit(g, new, a, n)
  BY <1>3, <1>5, <1>7, <1>10, <1>11, <1>13, <1>14 DEF RowsFit
<1>. QED  BY <1>15 DEF g, n, new

LEMMA ComputeFits ==
    ASSUME NEW f \in Seq(Lines!Tokens), NEW t \in Lines!Tokens, NEW a \in Nat, a >= 1, a <= Len(f) + 1,
           InOrder(Append(f, t)), InOrder(f), NEW s \in Space, RowsFit(f, s, a, Len(f))
    PROVE  RowsFit(Append(f, t), Lines!Compute(s, t), a, Len(f) + 1)
BY CommentFits, CodeFits DEF Lines!Compute

LEMMA NewFits ==
    ASSUME NEW f \in Seq(Lines!Tokens), NEW i \in Nat, NEW row
    PROVE  RowsFit(f, Lines!NewSpace(i, row), Len(f) + 1, Len(f))
<1>1. CodeOf(f, Len(f) + 1, Len(f)) = {} /\ CommentOf(f, Len(f) + 1, Len(f)) = {}
  BY DEF CodeOf, CommentOf
<1>2. /\ Lines!NewSpace(i, row).lines = {} /\ Lines!NewSpace(i, row).commentEnd = Lines!NoRow
      /\ Lines!NewSpace(i, row).only = 0
  BY DEF Lines!NewSpace
<1>3. Remembered(f, Lines!NewSpace(i, row), Len(f) + 1, Len(f))
  BY DEF Remembered
<1>4. Cardinality({} \ {}) = 0
  <2>1. {} \ {} = {}
    OBVIOUS
  <2>. QED  BY <2>1, FS_EmptySet
<1>. QED  BY <1>1, <1>2, <1>3, <1>4 DEF RowsFit

(* A space that is left is merged into the one around it.                   *)
LEMMA MergeFits ==
    ASSUME NEW f \in Seq(Lines!Tokens), InOrder(f), NEW outer \in Space, NEW inner \in Space,
           NEW a \in Nat, NEW b \in Nat, a >= 1, a <= b + 1, b + 1 <= Len(f),
           f[b + 1].kind = "open", f[Len(f)].kind = "close",
           RowsFit(f, outer, a, b), RowsFit(f, inner, b + 1, Len(f))
    PROVE  RowsFit(f, Lines!Merge(outer, inner), a, Len(f))
<1>. DEFINE n == Len(f)
            code1 == CodeOf(f, a, b)
            code2 == CodeOf(f, b + 1, n)
            comments1 == CommentOf(f, a, b)
            comments2 == CommentOf(f, b + 1, n)
            whole == Lines!Merge(outer, inner)
            row0 == f[b + 1].start
<1>1. /\ n \in Nat /\ n \in DOMAIN f /\ b + 1 \in DOMAIN f /\ b + 1 \in Nat /\ b + 1 >= 1 /\ b <= n
      /\ \A i \in a..b : i \in DOMAIN f /\ i < b + 1 /\ i \in a..n
      /\ \A i \in (b + 1)..n : i \in DOMAIN f /\ i \in a..n /\ (i = n \/ i < n)
      /\ \A i \in a..n : i \in a..b \/ i \in (b + 1)..n
      /\ n \in (b + 1)..n /\ b + 1 \in (b + 1)..n
  OBVIOUS
<1>2. row0 \in Int /\ f[n].start \in Int /\ f[n].start = f[n].end
  BY <1>1, NodeRows
<1>3. whole.lines = code1 \cup code2 /\ whole.only = outer.only + inner.only
      /\ whole.commentEnd = outer.commentEnd
  BY DEF Lines!Merge, Space, RowsFit
<1>4. \A i \in a..b : f[i].end <= row0 /\ f[i].end \in Int
  BY <1>1, NodeRows, RowsBefore
<1>5. /\ IsFiniteSet(comments1 \ code1) /\ IsFiniteSet(comments2 \ code2)
      /\ \A row \in code2 \cup comments2 : row \in Int /\ row0 <= row
  <2>1. IsFiniteSet(comments1 \ code1)
    BY <1>1, RowsAreFinite
  <2>. DEFINE second == b + 1
  <2>2. second \in Nat /\ second >= 1 /\ n \in Nat /\ n <= Len(f)
    BY <1>1
  <2>. HIDE DEF second, n
  <2>3. /\ IsFiniteSet(CommentOf(f, second, n) \ CodeOf(f, second, n))
        /\ \A row \in CodeOf(f, second, n) \cup CommentOf(f, second, n) : row \in Int /\ f[second].start <= row
    BY <2>2, RowsAreFinite
  <2>. QED  BY <2>1, <2>3 DEF second, n
<1>6. \A row \in code1 \cup comments1 : row \in Int /\ row <= row0
  <2>. SUFFICES ASSUME NEW row \in Int, NEW i \in a..b, CodeAt(f, i, row) \/ CommentAt(f, i, row)
                PROVE  row <= row0
    BY DEF CodeOf, CommentOf
  <2>1. row <= f[i].end
    BY <1>1, NodeRows DEF CodeAt, CommentAt
  <2>2. f[i].end <= row0 /\ f[i].end \in Int
    BY <1>4
  <2>. HIDE DEF row0
  <2>. QED  BY <1>2, <2>1, <2>2
<1>7. row0 \in code2
  BY <1>1, <1>2 DEF CodeOf, CodeAt
<1>8. CodeOf(f, a, n) = code1 \cup code2 /\ CommentOf(f, a, n) = comments1 \cup comments2
  BY <1>1 DEF CodeOf, CommentOf
<1>9. f[n].end \in code2
  BY <1>1, <1>2 DEF CodeOf, CodeAt
<1>10. /\ outer.commentEnd # Lines!NoRow => \E i \in a..b : f[i].kind = "comment" /\ f[i].end = outer.commentEnd
       /\ Tidy(f) => /\ outer.only = Cardinality(comments1 \ code1)
                     /\ inner.only = Cardinality(comments2 \ code2)
                     /\ Remembered(f, outer, a, b) /\ outer.lines = code1
  BY DEF RowsFit
<1>. HIDE DEF n, code1, code2, comments1, comments2, whole, row0
<1>11. whole.commentEnd # Lines!NoRow => \E i \in a..n : f[i].kind = "comment" /\ f[i].end = whole.commentEnd
  BY <1>1, <1>3, <1>10
(* A function does not begin on the row a comment before it ends on.        *)
<1>12. ASSUME Tidy(f) PROVE \A row \in comments1 : row < row0
  <2>. SUFFICES ASSUME NEW row \in Int, NEW i \in a..b, CommentAt(f, i, row)
                PROVE  row < row0
    BY DEF comments1, CommentOf
  <2>1. f[i].end # row0
    <3>1. i \in DOMAIN f /\ b + 1 \in DOMAIN f /\ i < b + 1 /\ f[i].kind = "comment"
      BY <1>1 DEF CommentAt
    <3>. QED  BY <1>12, <3>1 DEF Tidy, row0
  <2>2. row <= f[i].end /\ f[i].end <= row0 /\ f[i].end \in Int
    BY <1>1, <1>4 DEF CommentAt
  <2>. QED  BY <1>2, <2>1, <2>2
<1>13. ASSUME Tidy(f)
       PROVE  whole.only = Cardinality((comments1 \cup comments2) \ (code1 \cup code2))
  <2>. DEFINE alone1 == comments1 \ code1
              alone2 == comments2 \ code2
  <2>1. \A row \in comments1 : row \notin code2 /\ row \notin comments2
    BY <1>2, <1>5, <1>6, <1>12, <1>13
  <2>2. \A row \in comments2 : row \in code1 => row \in code2
    BY <1>2, <1>5, <1>6, <1>7
  <2>3. (comments1 \cup comments2) \ (code1 \cup code2) = alone1 \cup alone2
    BY <2>1, <2>2
  <2>4. alone1 \cap alone2 = {}
    BY <2>1
  <2>5. whole.only = Cardinality(alone1) + Cardinality(alone2)
    BY <1>3, <1>10, <1>13
  <2>6. IsFiniteSet(alone1) /\ IsFiniteSet(alone2)
    BY <1>5
  <2>. HIDE DEF alone1, alone2
  <2>7. Cardinality(alone1 \cup alone2) = Cardinality(alone1) + Cardinality(alone2)
    BY <2>4, <2>6, CountedApart
  <2>. QED  BY <2>3, <2>5, <2>7
<1>14. ASSUME Tidy(f) PROVE Remembered(f, whole, a, n)
  <2>1. ASSUME NEW i \in a..b, f[i].kind = "comment"
        PROVE  \/ whole.commentEnd = f[i].end
               \/ f[i].end \in whole.lines
               \/ f[i].start < f[i].end /\ \E h \in a..n : h < i /\ f[h].end = f[i].start
               \/ \E j \in a..n : f[i].end < f[j].end
    <3>1. \/ outer.commentEnd = f[i].end
          \/ f[i].end \in outer.lines
          \/ f[i].start < f[i].end /\ \E h \in a..b : h < i /\ f[h].end = f[i].start
          \/ \E j \in a..b : f[i].end < f[j].end
      BY <1>10, <1>14, <2>1 DEF Remembered
    <3>. QED  BY <1>1, <1>3, <1>10, <1>14, <3>1
  <2>2. ASSUME NEW i \in (b + 1)..n, f[i].kind = "comment"
        PROVE  f[i].end \in whole.lines \/ \E j \in a..n : f[i].end < f[j].end
    <3>1. i < n
      <4>1. f[n].kind = "close"
        BY DEF n
      <4>. QED  BY <1>1, <2>2, <4>1
    <3>2. f[i].end <= f[n].start /\ f[i].end \in Int
      BY <1>1, <3>1, NodeRows, RowsBefore
    <3>3. f[i].end = f[n].end \/ f[i].end < f[n].end
      BY <1>2, <3>2
    <3>. QED  BY <1>1, <1>3, <1>9, <3>3
  <2>. QED  BY <1>1, <2>1, <2>2 DEF Remembered
<1>15. RowsFit(f, whole, a, n)
  BY <1>3, <1>8, <1>11, <1>13, <1>14 DEF RowsFit
<1>. QED  BY <1>15 DEF n, whole

-----------------------------------------------------------------------------
(* The spaces, each with the nodes from its first to the one before the     *)
(* first of the next open one.                                              *)

FirstOf(s) == IF s.first = 0 THEN 1 ELSE s.first
LastOf(f, ss, k) == IF k = Len(ss) THEN Len(f) ELSE ss[k + 1].first - 1

Begins(f, s) ==
    IF s.first = 0 THEN s.start = 0
    ELSE s.first \in DOMAIN f /\ f[s.first].kind = "open" /\ s.start = f[s.first].start

SpacesFit(f, ss) ==
    /\ ss \in Seq(Space) /\ ss # <<>> /\ ss[1].first = 0
    /\ \A k \in DOMAIN ss : k + 1 \in DOMAIN ss => ss[k].first < ss[k + 1].first
    /\ \A k \in DOMAIN ss : Begins(f, ss[k]) /\ RowsFit(f, ss[k], FirstOf(ss[k]), LastOf(f, ss, k))

LEMMA SpaceBounds ==
    ASSUME NEW f \in Seq(Lines!Tokens), NEW ss, SpacesFit(f, ss), NEW k \in DOMAIN ss
    PROVE  /\ ss[k] \in Space /\ ss[k].first \in 0..Len(f)
           /\ FirstOf(ss[k]) \in Nat /\ FirstOf(ss[k]) >= 1
           /\ LastOf(f, ss, k) \in Nat /\ LastOf(f, ss, k) <= Len(f)
           /\ FirstOf(ss[k]) <= LastOf(f, ss, k) + 1
           /\ k # Len(ss) => /\ k + 1 \in DOMAIN ss /\ ss[k + 1].first \in DOMAIN f
                             /\ f[ss[k + 1].first].kind = "open"
                             /\ LastOf(f, ss, k) = ss[k + 1].first - 1
<1>1. ss \in Seq(Space) /\ Len(ss) \in Nat /\ DOMAIN ss = 1..Len(ss) /\ Len(f) \in Nat
      /\ DOMAIN f = 1..Len(f)
  BY DEF SpacesFit
<1>2. \A j \in DOMAIN ss : ss[j] \in Space /\ ss[j].first \in Nat
  <2>1. \A s \in Space : s.first \in Nat
    BY DEF Space
  <2>2. \A j \in DOMAIN ss : ss[j] \in Space
    BY <1>1
  <2>. QED  BY <2>1, <2>2
<1>3. \A j \in DOMAIN ss : ss[j].first = 0 \/ (ss[j].first \in DOMAIN f /\ f[ss[j].first].kind = "open")
  BY DEF SpacesFit, Begins
<1>4. CASE k = Len(ss)
  BY <1>1, <1>2, <1>3, <1>4 DEF FirstOf, LastOf
<1>5. CASE k # Len(ss)
  <2>1. k + 1 \in DOMAIN ss
    BY <1>1, <1>5
  <2>2. ss[k].first < ss[k + 1].first
    BY <2>1 DEF SpacesFit
  <2>3. ss[k + 1].first \in DOMAIN f /\ f[ss[k + 1].first].kind = "open" /\ ss[k + 1].first \in Nat
    BY <1>2, <1>3, <2>1, <2>2
  <2>4. LastOf(f, ss, k) = ss[k + 1].first - 1
    BY <1>5 DEF LastOf
  <2>. QED  BY <1>1, <1>2, <1>3, <1>5, <2>1, <2>2, <2>3, <2>4 DEF FirstOf
<1>. QED  BY <1>4, <1>5

LEMMA BeginsStill ==
    ASSUME NEW f \in Seq(Lines!Tokens), NEW t \in Lines!Tokens, NEW s, Begins(f, s)
    PROVE  Begins(Append(f, t), s)
BY OneMoreNode DEF Begins

LEMMA ComputeIs ==
    ASSUME NEW s \in Space, NEW t \in Lines!Tokens
    PROVE  Lines!Compute(s, t).first = s.first /\ Lines!Compute(s, t).start = s.start
<1>1. Lines!AddComment(s, t).first = s.first /\ Lines!AddComment(s, t).start = s.start
  BY DEF Lines!AddComment, Space
<1>. QED  BY <1>1, AddCodeIs DEF Lines!Compute

LEMMA SpaceEnds ==
    ASSUME NEW ss \in Seq(Space), ss # <<>>
    PROVE  /\ Len(ss) \in DOMAIN ss /\ Lines!Last(ss) = ss[Len(ss)] /\ Lines!Last(ss) \in Space
           /\ Lines!Front(ss) \in Seq(Space) /\ Len(Lines!Front(ss)) = Len(ss) - 1
           /\ \A k \in 1..(Len(ss) - 1) : Lines!Front(ss)[k] = ss[k]
<1>1. Len(ss) \in Nat /\ Len(ss) >= 1 /\ DOMAIN ss = 1..Len(ss) /\ Len(ss) \in DOMAIN ss
  OBVIOUS
<1>. DEFINE n == Len(ss) - 1
<1>2. n \in Nat /\ \A k \in 1..n : ss[k] \in Space
  BY <1>1
<1>. HIDE DEF n
<1>3. /\ SubSeq(ss, 1, n) \in Seq(Space) /\ Len(SubSeq(ss, 1, n)) = n
      /\ \A k \in 1..n : SubSeq(ss, 1, n)[k] = ss[k]
  BY <1>2, SubSeqProperties
<1>4. Lines!Front(ss) = SubSeq(ss, 1, n)
  BY DEF Lines!Front, n
<1>5. Lines!Front(ss) \in Seq(Space) /\ Len(Lines!Front(ss)) = n /\ \A k \in 1..n : Lines!Front(ss)[k] = ss[k]
  BY <1>3, <1>4
<1>. QED  BY <1>1, <1>5 DEF Lines!Last, n

LEMMA UpTo ==
    ASSUME NEW m \in Nat
    PROVE  /\ \A k \in 1..m : /\ k \in 1..(m + 1)
                              /\ k # m + 1
                              /\ (k # m => k + 1 \in 1..m)
                              /\ (k = m => k + 1 = m + 1)
           /\ \A k \in 1..(m + 1) : k \in 1..m \/ k = m + 1
           /\ \A k \in 1..m : k \in 1..(m - 1) \/ k = m
           /\ \A k \in 1..(m - 1) : k \in 1..m /\ k # m /\ k + 1 \in 1..m
           /\ (m - 1) + 1 = m /\ (m + 1) - 1 = m
OBVIOUS

(* A function begins.                                                       *)
LEMMA OpenFits ==
    ASSUME NEW f \in Seq(Lines!Tokens), NEW t \in Lines!Tokens, NEW ss, SpacesFit(f, ss),
           InOrder(f), InOrder(Append(f, t)), t.kind = "open",
           NEW here \in Space, here = Lines!Compute(Lines!NewSpace(Len(f) + 1, t.start), t),
           Lines!NewSpace(Len(f) + 1, t.start) \in Space
    PROVE  SpacesFit(Append(f, t), Append(ss, here))
<1>. DEFINE g == Append(f, t)
            n == Len(f) + 1
            m == Len(ss) + 1
            new == Lines!NewSpace(n, t.start)
            tt == Append(ss, here)
<1>1. /\ g \in Seq(Lines!Tokens) /\ Len(f) \in Nat /\ Len(g) = n /\ n \in Nat /\ n >= 1 /\ g[n] = t
      /\ n \in DOMAIN g
  BY OneMoreNode
<1>2. /\ ss \in Seq(Space) /\ ss # <<>> /\ Len(ss) \in Nat /\ Len(ss) >= 1 /\ DOMAIN ss = 1..Len(ss)
      /\ tt \in Seq(Space) /\ tt # <<>> /\ Len(tt) = m /\ DOMAIN tt = 1..m /\ tt[m] = here
      /\ \A k \in 1..Len(ss) : tt[k] = ss[k]
      /\ \A k \in 1..m : k \in 1..Len(ss) \/ k = m
  BY DEF SpacesFit
<1>3. new.first = n /\ new.start = t.start
  BY DEF Lines!NewSpace
<1>4. here.first = n /\ here.start = t.start
  BY <1>3, ComputeIs
<1>5. RowsFit(g, here, n, n)
  <2>1. RowsFit(f, new, n, Len(f))
    BY <1>1, NewFits
  <2>2. RowsFit(g, here, n, Len(f) + 1)
    BY <1>1, <2>1, ComputeFits
  <2>. QED  BY <2>2
<1>. HIDE DEF g, n, new, tt
<1>6. Begins(g, here) /\ FirstOf(here) = n /\ LastOf(g, tt, m) = n
  BY <1>1, <1>2, <1>4 DEF Begins, FirstOf, LastOf
<1>7. ASSUME NEW k \in 1..Len(ss)
      PROVE  Begins(g, ss[k]) /\ RowsFit(g, ss[k], FirstOf(ss[k]), LastOf(g, tt, k))
  <2>1. /\ Begins(f, ss[k]) /\ RowsFit(f, ss[k], FirstOf(ss[k]), LastOf(f, ss, k))
    BY <1>2 DEF SpacesFit
  <2>2. LastOf(g, tt, k) = LastOf(f, ss, k)
    <3>1. CASE k = Len(ss)
      <4>1. k # m /\ k + 1 = m
        BY <1>2, <3>1, UpTo
      <4>2. n - 1 = Len(f)
        BY <1>1, UpTo DEF n
      <4>. HIDE DEF m
      <4>3. k # Len(tt) /\ tt[k + 1] = here
        BY <1>2, <4>1
      <4>. QED  BY <1>4, <3>1, <4>2, <4>3 DEF LastOf
    <3>2. CASE k # Len(ss)
      <4>1. k # m /\ k + 1 \in 1..Len(ss)
        BY <1>2, <3>2, UpTo
      <4>. HIDE DEF m
      <4>2. k # Len(tt) /\ tt[k + 1] = ss[k + 1]
        BY <1>2, <4>1
      <4>. QED  BY <3>2, <4>2 DEF LastOf
    <3>. QED  BY <3>1, <3>2
  <2>3. /\ FirstOf(ss[k]) \in Nat /\ FirstOf(ss[k]) >= 1
        /\ LastOf(f, ss, k) \in Nat /\ LastOf(f, ss, k) <= Len(f)
    BY <1>2, SpaceBounds
  <2>4. RowsFit(g, ss[k], FirstOf(ss[k]), LastOf(f, ss, k))
    BY <2>1, <2>3, StillFits DEF g
  <2>5. Begins(g, ss[k])
    BY <2>1, BeginsStill DEF g
  <2>. QED  BY <2>2, <2>4, <2>5
<1>8. ASSUME NEW k \in DOMAIN tt, k + 1 \in DOMAIN tt PROVE tt[k].first < tt[k + 1].first
  <2>1. CASE k = Len(ss)
    <3>1. ss[k].first \in 0..Len(f)
      BY <1>2, <2>1, SpaceBounds
    <3>2. ss[k].first < n
      BY <1>1, <3>1 DEF n
    <3>. QED  BY <1>2, <1>4, <2>1, <3>2
  <2>2. CASE k # Len(ss)
    <3>1. k \in 1..Len(ss) /\ k + 1 \in 1..Len(ss)
      BY <1>2, <1>8, <2>2
    <3>. QED  BY <1>2, <3>1 DEF SpacesFit
  <2>. QED  BY <2>1, <2>2
<1>9. tt[1].first = 0
  BY <1>2 DEF SpacesFit
<1>10. SpacesFit(g, tt)
  BY <1>2, <1>5, <1>6, <1>7, <1>8, <1>9 DEF SpacesFit
<1>. QED  BY <1>10 DEF g, tt

(* A node is counted into the innermost space.                              *)
LEMMA PlainFits ==
    ASSUME NEW f \in Seq(Lines!Tokens), NEW t \in Lines!Tokens, NEW ss, SpacesFit(f, ss),
           InOrder(f), InOrder(Append(f, t)),
           NEW here \in Space, here = Lines!Compute(Lines!Last(ss), t)
    PROVE  SpacesFit(Append(f, t), Append(Lines!Front(ss), here))
<1>. DEFINE g == Append(f, t)
            n == Len(f) + 1
            m == Len(ss)
            old == Lines!Last(ss)
            around == Lines!Front(ss)
            tt == Append(around, here)
<1>1. /\ g \in Seq(Lines!Tokens) /\ Len(f) \in Nat /\ Len(g) = n /\ n \in Nat /\ n >= 1
      /\ n = Len(f) + 1
  BY OneMoreNode
<1>2. /\ ss \in Seq(Space) /\ ss # <<>> /\ m \in Nat /\ m >= 1 /\ DOMAIN ss = 1..m
      /\ m \in DOMAIN ss
  BY DEF SpacesFit
<1>3. /\ old = ss[m] /\ old \in Space /\ around \in Seq(Space) /\ Len(around) = m - 1
      /\ \A k \in 1..(m - 1) : around[k] = ss[k]
  <2>1. /\ Lines!Last(ss) = ss[Len(ss)] /\ Lines!Last(ss) \in Space
        /\ Lines!Front(ss) \in Seq(Space) /\ Len(Lines!Front(ss)) = Len(ss) - 1
        /\ \A k \in 1..(Len(ss) - 1) : Lines!Front(ss)[k] = ss[k]
    BY <1>2, SpaceEnds
  <2>. QED  BY <2>1
<1>. HIDE DEF around, old
<1>4. /\ tt \in Seq(Space) /\ tt # <<>> /\ Len(tt) = m /\ DOMAIN tt = 1..m /\ tt[m] = here
      /\ \A k \in 1..(m - 1) : tt[k] = ss[k]
      /\ \A k \in 1..m : k \in 1..(m - 1) \/ k = m
  <2>1. /\ tt \in Seq(Space) /\ tt # <<>> /\ Len(tt) = Len(around) + 1
        /\ \A k \in 1..Len(around) : tt[k] = around[k]
        /\ tt[Len(around) + 1] = here
    BY <1>3, AppendProperties
  <2>2. Len(around) = m - 1 /\ (m - 1) + 1 = m
    BY <1>2, <1>3
  <2>3. \A k \in 1..m : k \in 1..(m - 1) \/ k = m
    BY <1>2, UpTo
  <2>. HIDE DEF tt, m
  <2>. QED  BY <1>3, <2>1, <2>2, <2>3
<1>5. here.first = old.first /\ here.start = old.start
  BY <1>3, ComputeIs DEF old
<1>6. \A k \in 1..m : tt[k].first = ss[k].first
  BY <1>3, <1>4, <1>5
<1>7. /\ FirstOf(old) \in Nat /\ FirstOf(old) >= 1 /\ FirstOf(old) <= Len(f) + 1
      /\ Begins(f, old) /\ RowsFit(f, old, FirstOf(old), Len(f))
  <2>1. LastOf(f, ss, m) = Len(f)
    BY DEF LastOf
  <2>2. /\ FirstOf(ss[m]) \in Nat /\ FirstOf(ss[m]) >= 1
        /\ FirstOf(ss[m]) <= LastOf(f, ss, m) + 1
    BY <1>2, SpaceBounds
  <2>3. Begins(f, ss[m]) /\ RowsFit(f, ss[m], FirstOf(ss[m]), LastOf(f, ss, m))
    BY <1>2 DEF SpacesFit
  <2>. HIDE DEF m
  <2>. QED  BY <1>3, <2>1, <2>2, <2>3
<1>8. RowsFit(g, here, FirstOf(here), n) /\ Begins(g, here)
  <2>1. FirstOf(here) = FirstOf(old) /\ (Begins(g, here) <=> Begins(g, old))
    BY <1>5 DEF FirstOf, Begins
  <2>2. Begins(g, old)
    BY <1>7, BeginsStill
  <2>3. RowsFit(g, Lines!Compute(old, t), FirstOf(old), Len(f) + 1)
    BY <1>3, <1>7, ComputeFits
  <2>4. here = Lines!Compute(old, t)
    BY DEF old
  <2>. HIDE DEF g
  <2>. QED  BY <1>1, <2>1, <2>2, <2>3, <2>4
<1>. HIDE DEF g, n, tt, m
<1>9. LastOf(g, tt, m) = n
  BY <1>1, <1>4 DEF LastOf
<1>10. ASSUME NEW k \in 1..(m - 1)
       PROVE  Begins(g, ss[k]) /\ RowsFit(g, ss[k], FirstOf(ss[k]), LastOf(g, tt, k))
  <2>0. k \in DOMAIN ss /\ k \in 1..m /\ k # m /\ k + 1 \in 1..m
    BY <1>2, UpTo
  <2>1. /\ Begins(f, ss[k]) /\ RowsFit(f, ss[k], FirstOf(ss[k]), LastOf(f, ss, k))
    BY <2>0 DEF SpacesFit
  <2>2. LastOf(g, tt, k) = LastOf(f, ss, k)
    <3>1. tt[k + 1].first = ss[k + 1].first
      BY <1>6, <2>0
    <3>2. k # Len(tt) /\ k # Len(ss)
      BY <1>4, <2>0 DEF m
    <3>. QED  BY <3>1, <3>2 DEF LastOf
  <2>3. /\ FirstOf(ss[k]) \in Nat /\ FirstOf(ss[k]) >= 1
        /\ LastOf(f, ss, k) \in Nat /\ LastOf(f, ss, k) <= Len(f)
    BY <2>0, SpaceBounds
  <2>4. RowsFit(g, ss[k], FirstOf(ss[k]), LastOf(f, ss, k))
    BY <2>1, <2>3, StillFits DEF g
  <2>5. Begins(g, ss[k])
    BY <2>1, BeginsStill DEF g
  <2>. QED  BY <2>2, <2>4, <2>5
<1>11. ASSUME NEW k \in DOMAIN tt, k + 1 \in DOMAIN tt PROVE tt[k].first < tt[k + 1].first
  BY <1>2, <1>4, <1>6, <1>11 DEF SpacesFit
<1>12. tt[1].first = 0
  BY <1>2, <1>6 DEF SpacesFit
<1>13. SpacesFit(g, tt)
  BY <1>4, <1>8, <1>9, <1>10, <1>11, <1>12 DEF SpacesFit
<1>. QED  BY <1>13 DEF g, tt, around

(* A function ends: its space is merged into the one around it.             *)
LEMMA SpaceAdded ==
    ASSUME NEW ss \in Seq(Space), NEW s \in Space
    PROVE  /\ Append(ss, s) \in Seq(Space) /\ Append(ss, s) # <<>>
           /\ Len(Append(ss, s)) = Len(ss) + 1
           /\ \A k \in 1..Len(ss) : Append(ss, s)[k] = ss[k]
           /\ Append(ss, s)[Len(ss) + 1] = s
BY AppendProperties

LEMMA CloseFits ==
    ASSUME NEW f \in Seq(Lines!Tokens), InOrder(f), NEW ss, SpacesFit(f, ss), Len(ss) > 1,
           f[Len(f)].kind = "close",
           Lines!Merge(Lines!Last(Lines!Front(ss)), Lines!Last(ss)) \in Space
    PROVE  SpacesFit(f, Append(Lines!Front(Lines!Front(ss)), Lines!Merge(Lines!Last(Lines!Front(ss)), Lines!Last(ss))))
<1>. DEFINE n == Len(f)
            m == Len(ss)
            l == m - 1
            inner == Lines!Last(ss)
            around == Lines!Front(ss)
            outer == Lines!Last(around)
            rest == Lines!Front(around)
            merged == Lines!Merge(outer, inner)
            tt == Append(rest, merged)
<1>1. /\ ss \in Seq(Space) /\ ss # <<>> /\ m \in Nat /\ l \in Nat /\ l >= 1 /\ DOMAIN ss = 1..m
      /\ l + 1 = m /\ l # m /\ l \in 1..m /\ m \in 1..m /\ n \in Nat /\ l # 0 /\ l \in 1..l
      /\ \A k \in 1..l : k \in 1..m
      /\ \A k \in 1..(l - 1) : k \in 1..l
  BY DEF SpacesFit
<1>2. /\ inner = ss[m] /\ inner \in Space /\ around \in Seq(Space) /\ Len(around) = l
      /\ \A k \in 1..l : around[k] = ss[k]
  BY <1>1, SpaceEnds
<1>. HIDE DEF around, inner
<1>3. /\ outer = ss[l] /\ outer \in Space /\ rest \in Seq(Space) /\ Len(rest) = l - 1
      /\ \A k \in 1..(l - 1) : rest[k] = ss[k]
  <2>. HIDE DEF l
  <2>1. around # <<>>
    <3>1. Len(around) # 0
      BY <1>1, <1>2
    <3>. QED  BY <3>1
  <2>2. /\ outer = around[l] /\ outer \in Space /\ rest \in Seq(Space) /\ Len(rest) = l - 1
        /\ \A k \in 1..(l - 1) : rest[k] = around[k]
    BY <1>2, <2>1, SpaceEnds
  <2>3. l \in 1..l
    BY <1>1
  <2>. QED  BY <1>1, <1>2, <2>2, <2>3
<1>4. merged \in Space
  BY DEF inner, around
<1>. HIDE DEF rest, outer
<1>5. /\ tt \in Seq(Space) /\ tt # <<>> /\ Len(tt) = l /\ DOMAIN tt = 1..l /\ tt[l] = merged
      /\ \A k \in 1..(l - 1) : tt[k] = ss[k]
  <2>. HIDE DEF l, merged
  <2>1. /\ tt \in Seq(Space) /\ tt # <<>> /\ Len(tt) = Len(rest) + 1
        /\ \A k \in 1..Len(rest) : tt[k] = rest[k]
        /\ tt[Len(rest) + 1] = merged
    BY <1>3, <1>4, SpaceAdded
  <2>2. (l - 1) + 1 = l
    BY <1>1, UpTo
  <2>. HIDE DEF tt
  <2>. QED  BY <1>3, <2>1, <2>2
<1>6. merged.first = outer.first /\ merged.start = outer.start
  BY <1>3 DEF Lines!Merge, Space
<1>. HIDE DEF merged, tt, m, l, n
<1>7. /\ \A k \in 1..l : k \in 1..(l - 1) \/ k = l
      /\ \A k \in 1..(l - 1) : k \in 1..m /\ k # m /\ k + 1 \in 1..l /\ k # l
      /\ m = Len(ss) /\ n = Len(f)
  <2>1. \A k \in 1..m : k \in 1..l \/ k = m
    BY <1>1, UpTo
  <2>2. \A k \in 1..l : k \in 1..(l - 1) \/ k = l
    BY <1>1, UpTo
  <2>3. \A k \in 1..(l - 1) : k \in 1..l /\ k # l /\ k + 1 \in 1..l
    BY <1>1, UpTo
  <2>4. \A k \in 1..l : k # m
    BY <1>1
  <2>. QED  BY <1>1, <2>1, <2>2, <2>3, <2>4 DEF m, n
<1>8. \A k \in 1..l : tt[k].first = ss[k].first /\ tt[k].start = ss[k].start
  BY <1>3, <1>5, <1>6, <1>7
(* The two, one after the other.                                            *)
<1>. DEFINE a == FirstOf(outer)
            b == LastOf(f, ss, l)
<1>9. /\ a \in Nat /\ a >= 1 /\ b \in Nat /\ a <= b + 1 /\ b + 1 <= n
      /\ f[b + 1].kind = "open" /\ b + 1 = inner.first /\ FirstOf(inner) = b + 1
  <2>1. /\ a \in Nat /\ a >= 1 /\ b \in Nat /\ a <= b + 1
        /\ ss[m].first \in DOMAIN f /\ f[ss[m].first].kind = "open" /\ b = ss[m].first - 1
    <3>1. l \in DOMAIN ss /\ l # Len(ss) /\ l + 1 = m
      BY <1>1, <1>7
    <3>. QED  BY <1>3, <3>1, SpaceBounds
  <2>2. ss[m].first \in Nat /\ ss[m].first <= n /\ ss[m].first # 0
    BY <1>1, <2>1 DEF n
  <2>. HIDE DEF b
  <2>3. b + 1 = ss[m].first
    BY <2>1, <2>2
  <2>4. FirstOf(ss[m]) = ss[m].first
    BY <2>2 DEF FirstOf
  <2>. QED  BY <1>2, <2>1, <2>2, <2>3, <2>4
<1>10. RowsFit(f, outer, a, b) /\ RowsFit(f, inner, b + 1, n) /\ Begins(f, outer)
  <2>1. LastOf(f, ss, m) = n
    BY <1>7 DEF LastOf
  <2>2. RowsFit(f, ss[m], FirstOf(ss[m]), LastOf(f, ss, m))
    BY <1>1 DEF SpacesFit
  <2>3. Begins(f, ss[l]) /\ RowsFit(f, ss[l], FirstOf(ss[l]), LastOf(f, ss, l))
    BY <1>1 DEF SpacesFit
  <2>. HIDE DEF b
  <2>. QED  BY <1>2, <1>3, <1>9, <2>1, <2>2, <2>3 DEF b
<1>11. RowsFit(f, merged, FirstOf(merged), LastOf(f, tt, l)) /\ Begins(f, merged)
  <2>1. RowsFit(f, merged, a, n)
    <3>. HIDE DEF a, b
    <3>. QED  BY <1>2, <1>3, <1>7, <1>9, <1>10, MergeFits DEF merged
  <2>2. FirstOf(merged) = a /\ LastOf(f, tt, l) = n
    BY <1>5, <1>6, <1>7 DEF FirstOf, LastOf
  <2>3. Begins(f, merged)
    BY <1>6, <1>10 DEF Begins
  <2>. QED  BY <2>1, <2>2, <2>3
<1>12. ASSUME NEW k \in 1..(l - 1)
       PROVE  Begins(f, tt[k]) /\ RowsFit(f, tt[k], FirstOf(tt[k]), LastOf(f, tt, k))
  <2>1. k \in DOMAIN ss /\ k # Len(ss) /\ k # Len(tt) /\ k + 1 \in 1..l
    BY <1>1, <1>5, <1>7
  <2>2. Begins(f, ss[k]) /\ RowsFit(f, ss[k], FirstOf(ss[k]), LastOf(f, ss, k))
    BY <2>1 DEF SpacesFit
  <2>3. LastOf(f, tt, k) = LastOf(f, ss, k)
    <3>1. tt[k + 1].first = ss[k + 1].first
      BY <1>8, <2>1
    <3>. QED  BY <2>1, <3>1 DEF LastOf
  <2>. QED  BY <1>5, <2>2, <2>3
<1>13. ASSUME NEW k \in DOMAIN tt, k + 1 \in DOMAIN tt PROVE tt[k].first < tt[k + 1].first
  <2>1. k \in 1..l /\ k + 1 \in 1..l /\ k \in DOMAIN ss /\ k + 1 \in DOMAIN ss
    BY <1>1, <1>5, <1>13
  <2>2. ss[k].first < ss[k + 1].first
    BY <2>1 DEF SpacesFit
  <2>. QED  BY <1>8, <2>1, <2>2
<1>14. tt[1].first = 0
  <2>1. 1 \in 1..l
    BY <1>1
  <2>2. ss[1].first = 0
    BY DEF SpacesFit
  <2>. QED  BY <1>8, <2>1, <2>2
<1>15. SpacesFit(f, tt)
  <2>1. \A k \in DOMAIN tt : Begins(f, tt[k]) /\ RowsFit(f, tt[k], FirstOf(tt[k]), LastOf(f, tt, k))
    BY <1>5, <1>7, <1>11, <1>12
  <2>. QED  BY <1>5, <1>13, <1>14, <2>1 DEF SpacesFit
<1>. QED  BY <1>15 DEF tt, rest, outer, around, merged, inner

-----------------------------------------------------------------------------
LEMMA InOrderStill ==
    ASSUME NEW f \in Seq(Lines!Tokens), InOrder(f), NEW t \in Lines!Tokens,
           f # <<>> => t.start >= f[Len(f)].end
    PROVE  InOrder(Append(f, t))
<1>. DEFINE g == Append(f, t)
            n == Len(f) + 1
<1>1. /\ Len(f) \in Nat /\ DOMAIN f = 1..Len(f) /\ g[n] = t
      /\ \A i \in 1..Len(f) : g[i] = f[i]
      /\ \A i \in DOMAIN g : i \in 1..Len(f) \/ i = n
      /\ \A i \in 1..Len(f) : i < n /\ ~(n < i) /\ (i = Len(f) \/ i < Len(f)) /\ Len(f) \in DOMAIN f /\ f # <<>>
      /\ ~(n < n)
  BY OneMoreNode
<1>2. \A i \in 1..Len(f) : f[i].end \in Int /\ f[i].end <= t.start
  <2>. SUFFICES ASSUME NEW i \in 1..Len(f) PROVE f[i].end \in Int /\ f[i].end <= t.start
    OBVIOUS
  <2>1. /\ f[i].end \in Int /\ f[Len(f)].end \in Int /\ f[Len(f)].start \in Int
        /\ f[Len(f)].start <= f[Len(f)].end
    BY <1>1, NodeRows
  <2>2. f[i].end <= f[Len(f)].end
    <3>1. CASE i = Len(f)
      BY <2>1, <3>1
    <3>2. CASE i < Len(f)
      <4>1. f[i].end <= f[Len(f)].start
        BY <1>1, <3>2 DEF InOrder
      <4>. QED  BY <2>1, <4>1
    <3>. QED  BY <1>1, <3>1, <3>2
  <2>3. t.start >= f[Len(f)].end /\ t.start \in Int
    BY <1>1, TokenRows
  <2>. QED  BY <2>1, <2>2, <2>3
<1>. HIDE DEF g, n
<1>3. ASSUME NEW i \in DOMAIN g, NEW j \in DOMAIN g, i < j PROVE g[i].end <= g[j].start
  <2>1. CASE i \in 1..Len(f) /\ j \in 1..Len(f)
    BY <1>1, <1>3, <2>1 DEF InOrder
  <2>2. CASE i \in 1..Len(f) /\ j = n
    BY <1>1, <1>2, <2>2
  <2>3. ~(i = n)
    BY <1>1, <1>3
  <2>. QED  BY <1>1, <2>1, <2>2, <2>3
<1>. QED  BY <1>3 DEF InOrder, g

(* What is counted of a space that was left, up to its last node.           *)
CountedFits(f, c) ==
    /\ c.last \in DOMAIN f /\ c.space \in Space /\ c.space.first \in 0..c.last
    /\ Begins(f, c.space)
    /\ RowsFit(f, c.space, FirstOf(c.space), c.last)

RowsInv ==
    /\ LineInv /\ InOrder(file)
    /\ file # <<>> => file[1].start = 0
    /\ SpacesFit(file, spaces)
    /\ \A c \in counted : CountedFits(file, c)

LEMMA CountedStill ==
    ASSUME NEW f \in Seq(Lines!Tokens), NEW t \in Lines!Tokens, NEW c, CountedFits(f, c)
    PROVE  CountedFits(Append(f, t), c)
<1>1. /\ c.last \in Nat /\ c.last <= Len(f) /\ c.last \in DOMAIN Append(f, t)
      /\ FirstOf(c.space) \in Nat /\ FirstOf(c.space) >= 1
  BY OneMoreNode DEF CountedFits, FirstOf
<1>2. RowsFit(Append(f, t), c.space, FirstOf(c.space), c.last)
  BY <1>1, StillFits DEF CountedFits
<1>. QED  BY <1>1, <1>2, BeginsStill DEF CountedFits

LEMMA InitRows == Lines!Init => RowsInv
<1>. SUFFICES ASSUME Lines!Init PROVE RowsInv
  OBVIOUS
<1>. DEFINE first == Lines!NewSpace(0, 0)
<1>1. file = <<>> /\ file \in Seq(Lines!Tokens) /\ spaces = <<first>> /\ counted = {} /\ LineInv
  BY InitSound DEF Lines!Init
<1>2. first.first = 0 /\ first.start = 0
  BY DEF Lines!NewSpace
<1>3. first \in Space
  BY NewSpaceSound, SoundIsSpace
<1>4. RowsFit(file, first, 1, 0)
  <2>1. RowsFit(file, Lines!NewSpace(0, 0), Len(file) + 1, Len(file))
    BY <1>1, NewFits
  <2>2. Len(file) = 0 /\ Len(file) + 1 = 1
    BY <1>1
  <2>. QED  BY <2>1, <2>2
<1>. HIDE DEF first
<1>5. /\ spaces \in Seq(Space) /\ spaces # <<>> /\ DOMAIN spaces = {1} /\ spaces[1] = first
      /\ Len(spaces) = 1
  BY <1>1, <1>3
<1>6. FirstOf(first) = 1 /\ LastOf(file, spaces, 1) = 0 /\ Begins(file, first)
  BY <1>1, <1>2, <1>5 DEF FirstOf, LastOf, Begins
<1>7. SpacesFit(file, spaces)
  BY <1>2, <1>4, <1>5, <1>6 DEF SpacesFit
<1>. QED  BY <1>1, <1>7 DEF RowsInv, InOrder

LEMMA CountRows ==
    ASSUME RowsInv, NEW t \in Lines!Tokens, Lines!Count(t)
    PROVE  RowsInv'
<1>. DEFINE n == Len(file) + 1
            inner == IF t.kind = "open" THEN Append(spaces, Lines!NewSpace(n, t.start)) ELSE spaces
            here == Lines!Compute(Lines!Last(inner), t)
            around == Lines!Front(inner)
<1>0. /\ LineInv /\ LineInv' /\ OpenAreSound
      /\ file \in Seq(Lines!Tokens) /\ InOrder(file) /\ SpacesFit(file, spaces)
      /\ file # <<>> => file[1].start = 0
      /\ file' = Append(file, t)
      /\ \A c \in counted : CountedFits(file, c)
  BY CountSound DEF RowsInv, LineInv, Lines!Count
<1>1. /\ Len(file) \in Nat /\ n \in Nat /\ t.start \in Int /\ file' \in Seq(Lines!Tokens)
      /\ Len(file') = n /\ file'[n] = t /\ n \in DOMAIN file'
  BY <1>0, TokenRows, OneMoreNode
<1>2. InOrder(file')
  <2>1. file # <<>> => t.start >= file[Len(file)].end
    BY <1>0 DEF Lines!Count, Lines!Follows, Lines!Last
  <2>. QED  BY <1>0, <2>1, InOrderStill
<1>3. file' # <<>> => file'[1].start = 0
  <2>1. CASE file = <<>>
    <3>1. n = 1 /\ t.start = 0
      BY <2>1 DEF Lines!Count, Lines!Follows
    <3>. QED  BY <1>1, <3>1
  <2>2. CASE file # <<>>
    <3>1. 1 \in 1..Len(file)
      BY <1>0, <2>2
    <3>. QED  BY <1>0, <2>2, <3>1, OneMoreNode
  <2>. QED  BY <2>1, <2>2
<1>4. inner \in Seq(Space) /\ inner # <<>> /\ \A k \in DOMAIN inner : Sound(inner[k])
  BY <1>0, <1>1, NewSpaceSound, AppendSound DEF OpenAreSound
<1>5. Sound(Lines!Last(inner)) /\ Sound(here) /\ here \in Space
      /\ around \in Seq(Space) /\ \A k \in DOMAIN around : Sound(around[k])
  BY <1>4, FrontSound, ComputeSound, SoundIsSpace
<1>6. SpacesFit(file', Append(around, here))
  <2>1. CASE t.kind = "open"
    <3>. DEFINE new == Lines!NewSpace(n, t.start)
    <3>1. new \in Space /\ Sound(new)
      BY <1>1, NewSpaceSound, SoundIsSpace
    <3>2. Lines!Last(inner) = new /\ around = spaces
      <4>1. spaces \in Seq(Space) /\ \A k \in DOMAIN spaces : Sound(spaces[k])
        BY <1>0 DEF OpenAreSound
      <4>2. inner = Append(spaces, new)
        BY <2>1
      <4>. HIDE DEF inner, new
      <4>. QED  BY <3>1, <4>1, <4>2, AppendSound
    <3>3. here = Lines!Compute(new, t)
      BY <3>2
    <3>. HIDE DEF here, around, inner
    <3>4. here = Lines!Compute(Lines!NewSpace(Len(file) + 1, t.start), t) /\ Lines!NewSpace(Len(file) + 1, t.start) \in Space
      BY <3>1, <3>3
    <3>5. SpacesFit(Append(file, t), Append(spaces, here))
      BY <1>0, <1>2, <1>5, <2>1, <3>4, OpenFits
    <3>. QED  BY <1>0, <3>2, <3>5
  <2>2. CASE t.kind # "open"
    <3>1. inner = spaces
      BY <2>2
    <3>2. here = Lines!Compute(Lines!Last(spaces), t) /\ around = Lines!Front(spaces)
      BY <3>1
    <3>. HIDE DEF here, around, inner
    <3>3. SpacesFit(Append(file, t), Append(Lines!Front(spaces), here))
      BY <1>0, <1>2, <1>5, <3>2, PlainFits
    <3>. QED  BY <1>0, <3>2, <3>3
  <2>. QED  BY <2>1, <2>2
<1>7. \A c \in counted : CountedFits(file', c)
  BY <1>0, CountedStill
<1>8. CASE t.kind = "close"
  <2>1. /\ spaces' = Append(Lines!Front(around), Lines!Merge(Lines!Last(around), here))
        /\ counted' = counted \cup {[space |-> here, last |-> n]}
    BY <1>8 DEF Lines!Count
  <2>2. inner = spaces /\ Len(spaces) > 1
    BY <1>8 DEF Lines!Count, Lines!Follows
  <2>. DEFINE tt == Append(around, here)
  <2>3. around # <<>> /\ Len(around) >= 1 /\ Len(around) \in Nat
    BY <1>4, <2>2, FrontSound
  <2>. HIDE DEF here, around, inner
  <2>4. /\ tt \in Seq(Space) /\ tt # <<>> /\ Lines!Last(tt) = here /\ Lines!Front(tt) = around
        /\ Len(tt) = Len(around) + 1 /\ tt[Len(tt)] = here
    BY <1>5, AppendSound
  <2>5. Len(tt) > 1
    BY <2>3, <2>4
  <2>6. Lines!Merge(Lines!Last(around), here) \in Space
    BY <1>5, <2>3, FrontSound, MergeSound, SoundIsSpace
  <2>7. SpacesFit(file', spaces')
    <3>1. file'[Len(file')].kind = "close"
      BY <1>1, <1>8
    <3>. HIDE DEF tt
    <3>2. SpacesFit(file', Append(Lines!Front(Lines!Front(tt)), Lines!Merge(Lines!Last(Lines!Front(tt)), Lines!Last(tt))))
      <4>1. SpacesFit(file', tt)
        BY <1>6 DEF tt
      <4>. QED  BY <1>1, <1>2, <2>4, <2>5, <2>6, <3>1, <4>1, CloseFits
    <3>. QED  BY <2>1, <2>4, <3>2
  <2>8. CountedFits(file', [space |-> here, last |-> n])
    <3>. HIDE DEF tt
    <3>1. Len(tt) \in DOMAIN tt
      BY <2>4, SpaceEnds
    <3>2. /\ here.first \in 0..Len(file') /\ Begins(file', here)
          /\ RowsFit(file', here, FirstOf(here), LastOf(file', tt, Len(tt)))
      <4>1. SpacesFit(file', tt)
        BY <1>6 DEF tt
      <4>2. tt[Len(tt)].first \in 0..Len(file')
        BY <1>1, <3>1, <4>1, SpaceBounds
      <4>3. /\ Begins(file', tt[Len(tt)])
            /\ RowsFit(file', tt[Len(tt)], FirstOf(tt[Len(tt)]), LastOf(file', tt, Len(tt)))
        BY <3>1, <4>1 DEF SpacesFit
      <4>. QED  BY <2>4, <4>2, <4>3
    <3>3. LastOf(file', tt, Len(tt)) = n
      BY <1>1 DEF LastOf
    <3>. QED  BY <1>1, <1>5, <3>2, <3>3 DEF CountedFits
  <2>. QED  BY <1>0, <1>2, <1>3, <1>7, <2>1, <2>7, <2>8 DEF RowsInv
<1>9. CASE t.kind # "close"
  <2>1. spaces' = Append(around, here) /\ counted' = counted
    BY <1>9 DEF Lines!Count
  <2>. HIDE DEF here, around, inner
  <2>2. SpacesFit(file', spaces')
    BY <1>6, <2>1
  <2>. QED  BY <1>0, <1>2, <1>3, <1>7, <2>1, <2>2 DEF RowsInv
<1>. QED  BY <1>8, <1>9

LEMMA ReturnRows ==
    ASSUME RowsInv, Lines!Return
    PROVE  RowsInv'
<1>1. /\ LineInv' /\ file' = file /\ spaces' = spaces /\ file # <<>> /\ Len(spaces) = 1
      /\ counted' = counted \cup {[space |-> spaces[1], last |-> Len(file)]}
      /\ file \in Seq(Lines!Tokens) /\ SpacesFit(file, spaces)
  BY ReturnSound DEF RowsInv, Lines!Return, LineInv
<1>2. CountedFits(file, [space |-> spaces[1], last |-> Len(file)])
  <2>1. 1 \in DOMAIN spaces
    BY <1>1 DEF SpacesFit
  <2>2. spaces[1] \in Space /\ spaces[1].first \in 0..Len(file)
    BY <1>1, <2>1, SpaceBounds
  <2>3. /\ Begins(file, spaces[1])
        /\ RowsFit(file, spaces[1], FirstOf(spaces[1]), LastOf(file, spaces, 1))
    BY <1>1, <2>1 DEF SpacesFit
  <2>4. LastOf(file, spaces, 1) = Len(file)
    BY <1>1 DEF LastOf
  <2>5. Len(file) \in DOMAIN file
    BY <1>1
  <2>. QED  BY <2>2, <2>3, <2>4, <2>5 DEF CountedFits
<1>. QED  BY <1>1, <1>2 DEF RowsInv

-----------------------------------------------------------------------------
LEMMA SameCount == \A S : Lines!Cardinality(S) = Cardinality(S)
BY DEF Lines!Cardinality, Cardinality

LEMMA AtMostOne ==
    ASSUME NEW S, IsFiniteSet(S), NEW x \in S, NEW y \in S, x # y
    PROVE  ~(Cardinality(S) <= 1)
<1>1. /\ IsFiniteSet(S \ {x}) /\ Cardinality(S \ {x}) = Cardinality(S) - 1
      /\ Cardinality(S) \in Nat /\ Cardinality(S \ {x}) \in Nat
  BY FS_RemoveElement, FS_CardinalityType
<1>2. Cardinality(S \ {x}) # 0
  BY <1>1, FS_EmptySet
<1>. QED  BY <1>1, <1>2

LEMMA OrdinaryIsTidy ==
    ASSUME file \in Seq(Lines!Tokens), InOrder(file), Lines!Ordinary
    PROVE  Tidy(file)
<1>1. DOMAIN file = 1..Len(file) /\ Len(file) \in Nat
  OBVIOUS
<1>2. ASSUME NEW i \in DOMAIN file, NEW j \in DOMAIN file,
             file[i].kind = "comment", file[j].kind = "comment", i < j
      PROVE  file[i].end < file[j].start
  <2>. SUFFICES ASSUME file[i].end = file[j].start PROVE FALSE
    <3>1. /\ file[i].end <= file[j].start
          /\ file[i].end \in Int /\ file[j].start \in Int
      BY <1>2, NodeRows DEF InOrder
    <3>. QED  BY <3>1
  <2>. DEFINE row == file[i].end
              S == Lines!CommentsOnRow(row)
  <2>1. /\ row \in Lines!Rows /\ row \in file[i].start..file[i].end
        /\ row \in file[j].start..file[j].end
    <3>1. /\ file[i].start \in Int /\ file[i].end \in Int /\ file[i].start <= file[i].end
          /\ file[j].start \in Int /\ file[j].end \in Int /\ file[j].start <= file[j].end
          /\ file[i] \in Lines!Tokens
      BY NodeRows
    <3>2. file[i].end \in Lines!Rows
      BY <3>1 DEF Lines!Tokens
    <3>. QED  BY <3>1, <3>2
  <2>2. i \in S /\ j \in S /\ i # j
    <3>1. i # j
      BY <1>1, <1>2
    <3>. QED  BY <1>2, <2>1, <3>1 DEF Lines!CommentsOnRow
  <2>3. IsFiniteSet(S)
    <3>1. IsFiniteSet(1..Len(file))
      BY <1>1, FS_Interval
    <3>2. S \in SUBSET (1..Len(file))
      BY <1>1 DEF Lines!CommentsOnRow
    <3>. QED  BY <3>1, <3>2, FS_Subset
  <2>4. Cardinality(S) <= 1
    BY <2>1, SameCount DEF Lines!Ordinary, Lines!Cardinality
  <2>. HIDE DEF S
  <2>. QED  BY <2>2, <2>3, <2>4, AtMostOne
<1>. QED  BY <1>2 DEF Tidy, Lines!Ordinary

(* The reference, in terms of the nodes' rows.                              *)
LEMMA RowsWithin ==
    ASSUME file \in Seq(Lines!Tokens), NEW c, CountedFits(file, c)
    PROVE  /\ Lines!From(c) = FirstOf(c.space) /\ Lines!From(c) \in Nat /\ Lines!From(c) >= 1 /\ Lines!From(c) <= c.last
           /\ c.last \in DOMAIN file /\ Lines!From(c) \in DOMAIN file /\ c.last \in Nat /\ c.last <= Len(file)
           /\ Lines!CodeRows(c) = CodeOf(file, Lines!From(c), c.last)
           /\ Lines!RowsOf(Lines!Comments(c)) = CommentOf(file, Lines!From(c), c.last)
           /\ Tidy(file) => Lines!RowsOf(Lines!Within(c)) = Lines!CodeRows(c) \cup Lines!RowsOf(Lines!Comments(c))
<1>. DEFINE a == Lines!From(c)
            b == c.last
<1>1. /\ a = FirstOf(c.space) /\ a \in Nat /\ a >= 1 /\ a <= b
      /\ b \in DOMAIN file /\ a \in DOMAIN file /\ b \in Nat /\ b <= Len(file)
      /\ \A i \in a..b : i \in DOMAIN file
  BY DEF CountedFits, Lines!From, FirstOf
<1>2. Lines!Within(c) = {file[i] : i \in a..b}
  BY DEF Lines!Within
<1>3. /\ \A t \in Lines!Within(c) : t.start \in Int /\ t.end \in Int /\ t.start <= t.end
      /\ \A t \in Lines!Within(c) : t.kind \in {"code", "open", "close"} => t.start = t.end
      /\ \A t \in Lines!Within(c) : t.kind \in Lines!Kinds
  <2>1. \A t \in Lines!Tokens : t.kind \in Lines!Kinds
    BY DEF Lines!Tokens
  <2>. QED  BY <1>1, <1>2, <2>1, NodeRows
<1>. HIDE DEF a, b
<1>4. Lines!CodeRows(c) = CodeOf(file, a, b)
  <2>1. ASSUME NEW row \in Lines!CodeRows(c) PROVE row \in CodeOf(file, a, b)
    <3>1. \/ \E t \in Lines!Within(c) : t.kind # "comment" /\ row = t.start
          \/ \E t \in Lines!Within(c) : t.kind = "macro" /\ row \in t.start..t.end
      BY DEF Lines!CodeRows, Lines!Comments, Lines!RowsOf
    <3>2. row \in Int
      BY <1>3, <3>1
    <3>3. \E i \in a..b : CodeAt(file, i, row)
      BY <1>2, <3>1 DEF CodeAt
    <3>. QED  BY <3>2, <3>3 DEF CodeOf
  <2>2. ASSUME NEW row \in CodeOf(file, a, b) PROVE row \in Lines!CodeRows(c)
    <3>1. PICK i \in a..b : CodeAt(file, i, row)
      BY DEF CodeOf
    <3>2. file[i] \in Lines!Within(c)
      BY <1>2
    <3>. QED  BY <3>1, <3>2 DEF CodeAt, Lines!CodeRows, Lines!Comments, Lines!RowsOf
  <2>. QED  BY <2>1, <2>2
<1>5. Lines!RowsOf(Lines!Comments(c)) = CommentOf(file, a, b)
  <2>1. ASSUME NEW row \in Lines!RowsOf(Lines!Comments(c)) PROVE row \in CommentOf(file, a, b)
    <3>1. PICK t \in Lines!Within(c) : t.kind = "comment" /\ row \in t.start..t.end
      BY DEF Lines!Comments, Lines!RowsOf
    <3>2. row \in Int
      BY <1>3, <3>1
    <3>3. \E i \in a..b : CommentAt(file, i, row)
      BY <1>2, <3>1 DEF CommentAt
    <3>. QED  BY <3>2, <3>3 DEF CommentOf
  <2>2. ASSUME NEW row \in CommentOf(file, a, b) PROVE row \in Lines!RowsOf(Lines!Comments(c))
    <3>1. PICK i \in a..b : CommentAt(file, i, row)
      BY DEF CommentOf
    <3>2. file[i] \in Lines!Within(c)
      BY <1>2
    <3>. QED  BY <3>1, <3>2 DEF CommentAt, Lines!Comments, Lines!RowsOf
  <2>. QED  BY <2>1, <2>2
<1>6. ASSUME Tidy(file) PROVE Lines!RowsOf(Lines!Within(c)) = Lines!CodeRows(c) \cup Lines!RowsOf(Lines!Comments(c))
  <2>1. \A t \in Lines!Within(c) : t.kind # "text"
    BY <1>1, <1>2, <1>6 DEF Tidy
  <2>2. ASSUME NEW row \in Lines!RowsOf(Lines!Within(c)) PROVE row \in Lines!CodeRows(c) \cup Lines!RowsOf(Lines!Comments(c))
    <3>1. PICK t \in Lines!Within(c) : row \in t.start..t.end
      BY DEF Lines!RowsOf
    <3>2. CASE t.kind = "comment"
      BY <3>1, <3>2 DEF Lines!RowsOf, Lines!Comments
    <3>3. CASE t.kind = "macro"
      BY <3>1, <3>3 DEF Lines!RowsOf, Lines!Comments, Lines!CodeRows
    <3>4. CASE t.kind \in {"code", "open", "close"}
      <4>1. row = t.start
        BY <1>3, <3>1, <3>4
      <4>. QED  BY <3>4, <4>1 DEF Lines!Comments, Lines!CodeRows
    <3>. QED  BY <1>3, <2>1, <3>2, <3>3, <3>4 DEF Lines!Kinds
  <2>3. ASSUME NEW row \in Lines!CodeRows(c) \cup Lines!RowsOf(Lines!Comments(c)) PROVE row \in Lines!RowsOf(Lines!Within(c))
    <3>1. \/ \E t \in Lines!Within(c) : row = t.start
          \/ \E t \in Lines!Within(c) : row \in t.start..t.end
      BY DEF Lines!CodeRows, Lines!Comments, Lines!RowsOf
    <3>2. \E t \in Lines!Within(c) : row \in t.start..t.end
      BY <1>3, <3>1
    <3>. QED  BY <3>2 DEF Lines!RowsOf
  <2>. QED  BY <2>2, <2>3
<1>. QED  BY <1>1, <1>4, <1>5, <1>6 DEF a, b

LEMMA CountedSorted ==
    ASSUME RowsInv, NEW c \in counted
    PROVE  /\ c.space.lines = Lines!CodeRows(c)
           /\ c.space.only >= 0
           /\ Lines!Ordinary =>
                /\ c.space.only = Cardinality(Lines!RowsOf(Lines!Comments(c)) \ Lines!CodeRows(c))
                /\ Lines!Blank(c.space, Lines!End(c)) = Cardinality(Lines!BlankRows(c))
<1>. DEFINE a == Lines!From(c)
            b == c.last
            code == Lines!CodeRows(c)
            comments == Lines!RowsOf(Lines!Comments(c))
<1>1. file \in Seq(Lines!Tokens) /\ InOrder(file) /\ CountedFits(file, c) /\ Sound(c.space)
  BY DEF RowsInv, LineInv, CountedAreSound
<1>2. /\ a = FirstOf(c.space) /\ a \in Nat /\ a >= 1 /\ a <= b
      /\ b \in DOMAIN file /\ a \in DOMAIN file /\ b \in Nat /\ b <= Len(file)
      /\ code = CodeOf(file, a, b) /\ comments = CommentOf(file, a, b)
      /\ Tidy(file) => Lines!RowsOf(Lines!Within(c)) = code \cup comments
  BY <1>1, RowsWithin
<1>3. RowsFit(file, c.space, a, b)
  BY <1>1, <1>2 DEF CountedFits
<1>4. c.space.lines = code
  BY <1>2, <1>3 DEF RowsFit
<1>5. c.space.only >= 0
  BY <1>1 DEF Sound
<1>6. ASSUME Lines!Ordinary
      PROVE  /\ c.space.only = Cardinality(comments \ code)
             /\ Lines!Blank(c.space, Lines!End(c)) = Cardinality(Lines!BlankRows(c))
  <2>1. Tidy(file)
    BY <1>1, <1>6, OrdinaryIsTidy
  <2>2. c.space.only = Cardinality(comments \ code)
    BY <1>2, <1>3, <2>1 DEF RowsFit
  <2>. DEFINE first == file[a].start
              last == Lines!End(c)
              alone == comments \ code
              all == first..last
              rest == all \ (code \cup comments)
  <2>3. /\ first \in Int /\ last \in Int /\ first <= last + 1
    <3>1. /\ first \in Int /\ file[a].end \in Int /\ first <= file[a].end
          /\ file[b].start \in Int /\ file[b].end \in Int /\ file[b].start <= file[b].end
      BY <1>1, <1>2, NodeRows
    <3>2. a = b \/ a < b
      BY <1>2
    <3>3. a < b => file[a].end <= file[b].start
      BY <1>1, <1>2 DEF InOrder
    <3>4. last = file[b].end
      BY DEF Lines!End
    <3>. QED  BY <3>1, <3>2, <3>3, <3>4
  <2>4. Lines!Sloc(c.space, last) = (last - first) + 1
    <3>1. CASE c.space.first = 0
      <4>1. c.space.start = 0 /\ a = 1
        BY <1>1, <1>2, <3>1 DEF CountedFits, Begins, FirstOf
      <4>2. file # <<>> /\ file[1].start = 0
        BY <1>1, <1>2, <4>1 DEF RowsInv
      <4>3. Lines!Sloc(c.space, last) = (last + 1) - 0 /\ first = 0
        BY <3>1, <4>1, <4>2 DEF Lines!Sloc
      <4>. HIDE DEF last, first
      <4>. QED  BY <2>3, <4>3
    <3>2. CASE c.space.first # 0
      <4>1. c.space.start = file[c.space.first].start /\ a = c.space.first
        BY <1>1, <1>2, <3>2 DEF CountedFits, Begins, FirstOf
      <4>. QED  BY <3>2, <4>1 DEF Lines!Sloc
    <3>. QED  BY <3>1, <3>2
  <2>5. /\ IsFiniteSet(code) /\ IsFiniteSet(alone)
        /\ \A row \in code \cup comments : row \in Int /\ first <= row /\ row <= last
    <3>1. /\ IsFiniteSet(CodeOf(file, a, b)) /\ IsFiniteSet(CommentOf(file, a, b) \ CodeOf(file, a, b))
          /\ \A row \in CodeOf(file, a, b) \cup CommentOf(file, a, b) :
                 row \in Int /\ file[a].start <= row /\ row <= file[b].end
      BY <1>1, <1>2, RowsAreFinite
    <3>2. last = file[b].end
      BY DEF Lines!End
    <3>. QED  BY <1>2, <3>1, <3>2
  <2>6. Lines!BlankRows(c) = rest
    BY <1>2, <2>1 DEF Lines!BlankRows
  <2>7. IsFiniteSet(all) /\ Cardinality(all) = (last - first) + 1
    BY <2>3, HowManyRows
  <2>8. Lines!Blank(c.space, last) = (Lines!Sloc(c.space, last) - Cardinality(code)) - c.space.only
    BY <1>4, SameCount DEF Lines!Blank, Lines!Cardinality
  <2>. HIDE DEF code, comments, first, last
  <2>9. all = code \cup (alone \cup rest) /\ code \cap (alone \cup rest) = {} /\ alone \cap rest = {}
    <3>1. code \cup comments \subseteq all
      BY <2>3, <2>5
    <3>. HIDE DEF all
    <3>. QED  BY <3>1
  <2>10. IsFiniteSet(rest)
    <3>1. rest \in SUBSET all
      OBVIOUS
    <3>. QED  BY <2>7, <3>1, FS_Subset
  <2>. HIDE DEF all, alone, rest
  <2>11. /\ Cardinality(alone) \in Nat /\ Cardinality(rest) \in Nat /\ IsFiniteSet(alone \cup rest)
         /\ Cardinality(alone \cup rest) = Cardinality(alone) + Cardinality(rest)
    BY <2>5, <2>9, <2>10, CountedApart
  <2>12. /\ Cardinality(code) \in Nat
         /\ Cardinality(all) = Cardinality(code) + Cardinality(alone \cup rest)
    BY <2>5, <2>9, <2>11, CountedApart
  <2>13. c.space.only = Cardinality(alone)
    BY <2>2 DEF alone
  <2>14. Lines!Blank(c.space, last) = Cardinality(rest)
    BY <2>3, <2>4, <2>7, <2>8, <2>11, <2>12, <2>13
  <2>. QED  BY <2>2, <2>6, <2>14 DEF last
<1>. QED  BY <1>4, <1>5, <1>6

LEMMA RowsStutter == ASSUME RowsInv, UNCHANGED Lines!vars PROVE RowsInv'
BY DEF Lines!vars, RowsInv, LineInv, OpenAreSound, CountedAreSound

LEMMA RowsTell == ASSUME RowsInv PROVE Lines!RowsAreSorted
BY CountedSorted, SameCount DEF Lines!RowsAreSorted, Lines!Cardinality

-----------------------------------------------------------------------------
(* Induction over numbers, from sets of them.                               *)

Smaller == OpToRel(<, Nat)

LEMMA SmallerIs == \A x, y \in Nat : <<y, x>> \in Smaller <=> y < x
BY DEF Smaller, OpToRel

LEMMA LeastExists ==
    ASSUME NEW T \in SUBSET Nat, T # {}
    PROVE  \E x \in T : \A y \in T : x <= y
<1>1. IsWellFoundedOn(Smaller, Nat)
  BY NatLessThanWellFounded DEF Smaller
<1>2. PICK x \in T : \A y \in T : ~(<<y, x>> \in Smaller)
  BY <1>1, WFMin
<1>3. \A y \in T : x \in Nat /\ y \in Nat /\ ~(y < x)
  BY SmallerIs, <1>2
<1>. QED  BY <1>3

LEMMA CountingUp ==
    ASSUME NEW n \in Nat, NEW T, 0 \in T, \A k \in 0..(n - 1) : k \in T => k + 1 \in T
    PROVE  \A k \in 0..n : k \in T
<1>. DEFINE Missing == {k \in 0..n : k \notin T}
<1>. SUFFICES ASSUME Missing # {} PROVE FALSE
  OBVIOUS
<1>0. Missing \in SUBSET Nat
  OBVIOUS
<1>1. PICK m \in Missing : \A k \in Missing : m <= k
  <2>. HIDE DEF Missing
  <2>. QED  BY <1>0, LeastExists
<1>2. m \in Nat /\ m # 0 /\ m <= n /\ m \notin T
  OBVIOUS
<1>3. m - 1 \in 0..(n - 1)
  BY <1>2
<1>4. m - 1 \in T
  BY <1>1, <1>2, <1>3
<1>. QED  BY <1>2, <1>3, <1>4

-----------------------------------------------------------------------------
(* The path from a node to the root.                                        *)

Downward == {p \in [Walk!Nodes -> 0..(SpaceNodes - 1)] : \A x \in Walk!Nodes : p[x] < x}

PathStep(p, g, y) == IF y = 0 THEN {} ELSE {y} \cup g[p[y]]

LEMMA PathsUpTo ==
    ASSUME NEW p \in Downward, NEW n \in 0..SpaceNodes
    PROVE  \E g : g = [y \in 0..n |-> PathStep(p, g, y)]
<1>. DEFINE T == {m \in 0..SpaceNodes : \E g : g = [y \in 0..m |-> PathStep(p, g, y)]}
<1>0. SpaceNodes \in Nat
  BY SizeAssumption
<1>1. 0 \in T
  <2>. DEFINE g == [y \in 0..0 |-> {}]
  <2>1. g = [y \in 0..0 |-> PathStep(p, g, y)]
    BY DEF PathStep
  <2>. QED  BY <1>0, <2>1
<1>2. ASSUME NEW k \in 0..(SpaceNodes - 1), k \in T PROVE k + 1 \in T
  <2>1. PICK g : g = [y \in 0..k |-> PathStep(p, g, y)]
    BY <1>2
  <2>. DEFINE h == [y \in 0..(k + 1) |-> IF y = k + 1 THEN {k + 1} \cup g[p[k + 1]] ELSE g[y]]
  <2>2. \A y \in 1..(k + 1) : y \in Walk!Nodes /\ p[y] \in 0..k
    BY <1>0 DEF Downward, Walk!Nodes
  <2>3. \A y \in 0..k : h[y] = g[y]
    BY <1>0
  <2>4. ASSUME NEW y \in 0..(k + 1) PROVE h[y] = PathStep(p, h, y)
    <3>1. CASE y = 0
      BY <1>0, <2>1, <3>1 DEF PathStep
    <3>2. CASE y = k + 1
      BY <1>0, <2>2, <2>3, <3>2 DEF PathStep
    <3>3. CASE y # 0 /\ y # k + 1
      <4>1. y \in 0..k /\ y \in 1..(k + 1)
        BY <1>0, <3>3
      <4>2. g[y] = PathStep(p, g, y)
        BY <2>1, <4>1
      <4>3. h[p[y]] = g[p[y]]
        BY <2>2, <2>3, <4>1
      <4>. QED  BY <2>3, <3>3, <4>1, <4>2, <4>3 DEF PathStep
    <3>. QED  BY <3>1, <3>2, <3>3
  <2>5. h = [y \in 0..(k + 1) |-> PathStep(p, h, y)]
    BY <2>4
  <2>6. k + 1 \in 0..SpaceNodes
    BY <1>0
  <2>. QED  BY <2>5, <2>6
<1>. HIDE DEF T
<1>3. n \in T
  BY <1>0, <1>1, <1>2, CountingUp
<1>. QED  BY <1>3 DEF T

LEMMA PathUnfolds ==
    ASSUME NEW p \in Downward
    PROVE  /\ Walk!PathTo(p, 0) = {}
           /\ \A x \in Walk!Nodes : Walk!PathTo(p, x) = {x} \cup Walk!PathTo(p, p[x])
<1>. DEFINE Def(g) == g = [y \in 0..SpaceNodes |-> IF y = 0 THEN {} ELSE {y} \cup g[p[y]]]
            above == CHOOSE g : Def(g)
<1>0. SpaceNodes \in Nat
  BY SizeAssumption
<1>1. \E g : Def(g)
  <2>1. SpaceNodes \in 0..SpaceNodes
    BY <1>0
  <2>. QED  BY <2>1, PathsUpTo DEF PathStep
<1>2. Def(above)
  BY <1>1
<1>3. \A x : Walk!PathTo(p, x) = above[x]
  BY DEF Walk!PathTo
<1>4. above = [y \in 0..SpaceNodes |-> IF y = 0 THEN {} ELSE {y} \cup above[p[y]]]
  BY <1>2
<1>. HIDE DEF above
<1>5. \A y \in 0..SpaceNodes : above[y] = IF y = 0 THEN {} ELSE {y} \cup above[p[y]]
  BY <1>4
<1>6. above[0] = {} /\ \A x \in Walk!Nodes : above[x] = {x} \cup above[p[x]]
  <2>. HIDE DEF Def
  <2>1. 0 \in 0..SpaceNodes /\ \A x \in Walk!Nodes : x \in 0..SpaceNodes /\ x # 0
    BY <1>0 DEF Walk!Nodes
  <2>2. above[0] = {}
    BY <1>5, <2>1
  <2>3. ASSUME NEW x \in Walk!Nodes PROVE above[x] = {x} \cup above[p[x]]
    BY <1>5, <2>1
  <2>. QED  BY <2>2, <2>3
<1>. QED  BY <1>3, <1>6

LEMMA PathIsAbove ==
    ASSUME NEW p \in Downward, NEW x \in 0..SpaceNodes
    PROVE  Walk!PathTo(p, x) \subseteq 1..x
<1>. DEFINE Bad == {y \in 0..SpaceNodes : ~(Walk!PathTo(p, y) \subseteq 1..y)}
<1>0. SpaceNodes \in Nat
  BY SizeAssumption
<1>. SUFFICES ASSUME Bad # {} PROVE FALSE
  OBVIOUS
<1>1. PICK m \in Bad : \A y \in Bad : m <= y
  <2>. HIDE DEF Bad
  <2>1. Bad \subseteq Nat
    BY <1>0 DEF Bad
  <2>. QED  BY <2>1, LeastExists
<1>2. m \in 0..SpaceNodes /\ ~(Walk!PathTo(p, m) \subseteq 1..m)
  OBVIOUS
<1>3. CASE m = 0
  BY <1>2, <1>3, PathUnfolds
<1>4. CASE m # 0
  <2>1. m \in Walk!Nodes /\ p[m] \in Nat /\ p[m] < m
    BY <1>0, <1>2, <1>4 DEF Walk!Nodes, Downward
  <2>2. Walk!PathTo(p, p[m]) \subseteq 1..p[m]
    <3>1. p[m] \in 0..SpaceNodes /\ p[m] \notin Bad
      <4>. HIDE DEF Bad
      <4>. QED  BY <1>0, <1>1, <1>2, <2>1
    <3>. QED  BY <3>1
  <2>3. Walk!PathTo(p, m) = {m} \cup Walk!PathTo(p, p[m])
    BY <2>1, PathUnfolds
  <2>4. Walk!PathTo(p, m) \subseteq 1..m
    BY <1>0, <1>2, <2>1, <2>2, <2>3
  <2>. QED  BY <1>2, <2>4
<1>. QED  BY <1>3, <1>4

-----------------------------------------------------------------------------
(* Sets of nodes in source order.                                           *)

Increasing(s) == \A i, j \in DOMAIN s : i < j => s[i] < s[j]
Lists(s, S) == s \in Seq(Nat) /\ Increasing(s) /\ {s[i] : i \in DOMAIN s} = S

LEMMA ListsGrow ==
    ASSUME NEW s, NEW S, Lists(s, S), NEW n \in Nat, \A x \in S : x < n
    PROVE  Lists(Append(s, n), S \cup {n})
<1>. DEFINE t == Append(s, n)
<1>1. /\ t \in Seq(Nat) /\ Len(s) \in Nat /\ DOMAIN s = 1..Len(s)
      /\ DOMAIN t = 1..(Len(s) + 1) /\ t[Len(s) + 1] = n
      /\ \A i \in 1..Len(s) : t[i] = s[i]
  BY DEF Lists
<1>2. \A i \in 1..Len(s) : s[i] \in Nat /\ s[i] < n
  BY <1>1 DEF Lists
<1>. HIDE DEF t
<1>3. Increasing(t)
  <2>. SUFFICES ASSUME NEW i \in DOMAIN t, NEW j \in DOMAIN t, i < j PROVE t[i] < t[j]
    BY DEF Increasing
  <2>1. i \in 1..Len(s) /\ (j \in 1..Len(s) \/ j = Len(s) + 1)
    BY <1>1
  <2>2. CASE j \in 1..Len(s)
    <3>1. s[i] < s[j]
      BY <1>1, <2>1, <2>2 DEF Lists, Increasing
    <3>. QED  BY <1>1, <2>1, <2>2, <3>1
  <2>3. CASE j = Len(s) + 1
    BY <1>1, <1>2, <2>1, <2>3
  <2>. QED  BY <2>1, <2>2, <2>3
<1>4. {t[i] : i \in DOMAIN t} = S \cup {n}
  BY <1>1 DEF Lists
<1>. QED  BY <1>1, <1>3, <1>4 DEF Lists, t

LEMMA SourceOrderUpTo ==
    ASSUME NEW S, NEW n \in 0..SpaceNodes
    PROVE  \E g : /\ g = [m \in 0..n |->
                            IF m = 0 THEN <<>>
                            ELSE IF m \in S THEN Append(g[m - 1], m) ELSE g[m - 1]]
                  /\ \A m \in 0..n : Lists(g[m], S \cap (1..m))
<1>. DEFINE Def(g, m) == IF m = 0 THEN <<>>
                         ELSE IF m \in S THEN Append(g[m - 1], m) ELSE g[m - 1]
            Good(g, k) == /\ g = [m \in 0..k |-> Def(g, m)]
                          /\ \A m \in 0..k : Lists(g[m], S \cap (1..m))
            T == {k \in 0..SpaceNodes : \E g : Good(g, k)}
<1>0. SpaceNodes \in Nat
  BY SizeAssumption
<1>1. 0 \in T
  <2>. DEFINE g == [m \in 0..0 |-> <<>>]
  <2>1. g = [m \in 0..0 |-> Def(g, m)]
    OBVIOUS
  <2>2. \A m \in 0..0 : Lists(g[m], S \cap (1..m))
    BY DEF Lists, Increasing
  <2>3. Good(g, 0)
    BY <2>1, <2>2
  <2>. HIDE DEF Good
  <2>. QED  BY <1>0, <2>3
<1>2. ASSUME NEW k \in 0..(SpaceNodes - 1), k \in T PROVE k + 1 \in T
  <2>1. PICK g : Good(g, k)
    BY <1>2
  <2>. DEFINE h == [m \in 0..(k + 1) |-> IF m = k + 1 THEN Def(g, m) ELSE g[m]]
  <2>2. k \in Nat /\ k + 1 \in 0..SpaceNodes
    BY <1>0
  <2>3. \A m \in 0..k : h[m] = g[m] /\ g[m] = Def(g, m)
    <3>1. \A m \in 0..k : m \in 0..(k + 1) /\ m # k + 1
      BY <2>2
    <3>2. \A m \in 0..k : h[m] = g[m]
      BY <3>1
    <3>3. g = [m \in 0..k |-> Def(g, m)]
      BY <2>1
    <3>. HIDE DEF Def
    <3>4. \A m \in 0..k : g[m] = Def(g, m)
      BY <3>3
    <3>. QED  BY <3>2, <3>4
  <2>4. h[k + 1] = Def(g, k + 1)
    BY <2>2
  <2>. HIDE DEF h
  <2>5. ASSUME NEW m \in 0..(k + 1) PROVE h[m] = Def(h, m)
    <3>1. m # 0 => m - 1 \in 0..k
      BY <2>2
    <3>2. m = k + 1 \/ m \in 0..k
      BY <2>2
    <3>3. Def(h, m) = Def(g, m)
      BY <2>3, <3>1
    <3>. HIDE DEF Def
    <3>. QED  BY <2>3, <2>4, <3>2, <3>3
  <2>6. h = [m \in 0..(k + 1) |-> Def(h, m)]
    BY <2>5 DEF h
  <2>7. Lists(h[k + 1], S \cap (1..(k + 1)))
    <3>1. Lists(g[k], S \cap (1..k))
      <4>1. k \in 0..k
        BY <2>2
      <4>. QED  BY <2>1, <4>1
    <3>2. CASE k + 1 \in S
      <4>1. h[k + 1] = Append(g[k], k + 1)
        BY <2>2, <2>4, <3>2
      <4>2. S \cap (1..(k + 1)) = (S \cap (1..k)) \cup {k + 1}
        BY <2>2, <3>2
      <4>3. \A x \in S \cap (1..k) : x < k + 1
        BY <2>2
      <4>. QED  BY <2>2, <3>1, <4>1, <4>2, <4>3, ListsGrow
    <3>3. CASE k + 1 \notin S
      <4>1. h[k + 1] = g[k]
        BY <2>2, <2>4, <3>3
      <4>2. S \cap (1..(k + 1)) = S \cap (1..k)
        BY <2>2, <3>3
      <4>. QED  BY <3>1, <4>1, <4>2
    <3>. QED  BY <3>2, <3>3
  <2>8. \A m \in 0..(k + 1) : Lists(h[m], S \cap (1..m))
    <3>1. \A m \in 0..k : Lists(g[m], S \cap (1..m))
      BY <2>1
    <3>2. \A m \in 0..(k + 1) : m = k + 1 \/ m \in 0..k
      BY <2>2
    <3>. QED  BY <2>3, <2>7, <3>1, <3>2
  <2>9. Good(h, k + 1)
    BY <2>6, <2>8
  <2>. HIDE DEF Good
  <2>. QED  BY <2>2, <2>9
<1>. HIDE DEF T
<1>3. n \in T
  BY <1>0, <1>1, <1>2, CountingUp
<1>. QED  BY <1>3 DEF T

LEMMA InSourceOrderLists ==
    ASSUME NEW S
    PROVE  Lists(Walk!InSourceOrder(S), S \cap Walk!Nodes)
<1>. DEFINE Def(g) == g = [n \in 0..SpaceNodes |->
                             IF n = 0 THEN <<>>
                             ELSE IF n \in S THEN Append(g[n - 1], n) ELSE g[n - 1]]
            upTo == CHOOSE g : Def(g)
<1>0. SpaceNodes \in Nat /\ SpaceNodes \in 0..SpaceNodes
  BY SizeAssumption
<1>1. PICK g : Def(g) /\ \A m \in 0..SpaceNodes : Lists(g[m], S \cap (1..m))
  BY <1>0, SourceOrderUpTo
<1>2. Def(upTo)
  BY <1>1
<1>3. Walk!InSourceOrder(S) = upTo[SpaceNodes]
  BY DEF Walk!InSourceOrder
<1>. HIDE DEF upTo
<1>4. \A n \in 0..SpaceNodes : upTo[n] = g[n]
  <2>. DEFINE T == {n \in 0..SpaceNodes : upTo[n] = g[n]}
  <2>1. /\ \A n \in 0..SpaceNodes :
             upTo[n] = IF n = 0 THEN <<>>
                       ELSE IF n \in S THEN Append(upTo[n - 1], n) ELSE upTo[n - 1]
        /\ \A n \in 0..SpaceNodes :
             g[n] = IF n = 0 THEN <<>>
                    ELSE IF n \in S THEN Append(g[n - 1], n) ELSE g[n - 1]
    BY <1>1, <1>2
  <2>. HIDE DEF Def
  <2>2. 0 \in T
    BY <1>0, <2>1
  <2>3. \A k \in 0..(SpaceNodes - 1) : k \in T => k + 1 \in T
    <3>. SUFFICES ASSUME NEW k \in 0..(SpaceNodes - 1), upTo[k] = g[k]
                  PROVE  upTo[k + 1] = g[k + 1] /\ k + 1 \in 0..SpaceNodes
      OBVIOUS
    <3>1. k + 1 \in 0..SpaceNodes /\ k + 1 # 0 /\ (k + 1) - 1 = k
      BY <1>0
    <3>. QED  BY <2>1, <3>1
  <2>. HIDE DEF T
  <2>4. \A n \in 0..SpaceNodes : n \in T
    BY <1>0, <2>2, <2>3, CountingUp
  <2>. QED  BY <2>4 DEF T
<1>. QED  BY <1>0, <1>1, <1>3, <1>4 DEF Walk!Nodes

LEMMA NoEarlierDifference ==
    ASSUME NEW S, NEW s, NEW t, Lists(s, S), Lists(t, S), NEW i \in DOMAIN s, i \in DOMAIN t,
           \A j \in DOMAIN s : j < i => s[j] = t[j]
    PROVE  ~(s[i] < t[i])
<1>. SUFFICES ASSUME s[i] < t[i] PROVE FALSE
  OBVIOUS
<1>1. PICK j \in DOMAIN t : t[j] = s[i]
  BY DEF Lists
<1>2. /\ s \in Seq(Nat) /\ t \in Seq(Nat)
      /\ i \in Nat /\ j \in Nat /\ s[i] \in Nat /\ t[i] \in Nat /\ t[j] \in Nat
  BY DEF Lists
<1>3. j < i
  <2>1. ~(i < j)
    <3>1. i < j => t[i] < t[j]
      BY DEF Lists, Increasing
    <3>. QED  BY <1>1, <1>2, <3>1
  <2>2. i # j
    BY <1>1, <1>2
  <2>. QED  BY <1>2, <2>1, <2>2
<1>4. j \in DOMAIN s
  BY <1>2, <1>3
<1>5. s[j] < s[i] /\ s[j] = t[j]
  BY <1>3, <1>4 DEF Lists, Increasing
<1>. QED  BY <1>1, <1>2, <1>5

LEMMA NoLongerList ==
    ASSUME NEW S, NEW s, NEW t, Lists(s, S), Lists(t, S),
           \A j \in DOMAIN s : j \in DOMAIN t => s[j] = t[j]
    PROVE  Len(t) <= Len(s)
<1>. SUFFICES ASSUME ~(Len(t) <= Len(s)) PROVE FALSE
  OBVIOUS
<1>1. /\ s \in Seq(Nat) /\ t \in Seq(Nat) /\ Len(s) \in Nat /\ Len(t) \in Nat
      /\ DOMAIN s = 1..Len(s) /\ DOMAIN t = 1..Len(t)
  BY DEF Lists
<1>2. Len(s) + 1 \in DOMAIN t
  BY <1>1
<1>3. PICK j \in DOMAIN s : s[j] = t[Len(s) + 1]
  BY <1>2 DEF Lists
<1>4. j \in DOMAIN t /\ j < Len(s) + 1 /\ t[j] \in Nat
  BY <1>1, <1>2
<1>5. t[j] < t[Len(s) + 1]
  BY <1>2, <1>4 DEF Lists, Increasing
<1>. QED  BY <1>3, <1>4, <1>5

LEMMA OneList ==
    ASSUME NEW S, NEW s, NEW t, Lists(s, S), Lists(t, S)
    PROVE  s = t
<1>1. /\ s \in Seq(Nat) /\ t \in Seq(Nat) /\ Len(s) \in Nat /\ Len(t) \in Nat
      /\ DOMAIN s = 1..Len(s) /\ DOMAIN t = 1..Len(t)
  BY DEF Lists
<1>. DEFINE T == {i \in Nat : i \in DOMAIN s /\ i \in DOMAIN t /\ s[i] # t[i]}
<1>2. CASE T # {}
  <2>1. PICK i \in T : \A j \in T : i <= j
    <3>1. T \in SUBSET Nat
      OBVIOUS
    <3>. HIDE DEF T
    <3>. QED  BY <1>2, <3>1, LeastExists
  <2>2. \A j \in DOMAIN s : j < i => s[j] = t[j] /\ j \in DOMAIN t
    <3>. SUFFICES ASSUME NEW j \in DOMAIN s, j < i PROVE s[j] = t[j] /\ j \in DOMAIN t
      OBVIOUS
    <3>1. j \in Nat /\ j \in DOMAIN t /\ i \in Nat /\ ~(i <= j)
      BY <1>1
    <3>. QED  BY <2>1, <3>1
  <2>3. \A j \in DOMAIN t : j < i => t[j] = s[j]
    <3>. SUFFICES ASSUME NEW j \in DOMAIN t, j < i PROVE j \in DOMAIN s
      BY <2>2
    <3>. QED  BY <1>1
  <2>4. ~(s[i] < t[i]) /\ ~(t[i] < s[i])
    BY <2>2, <2>3, NoEarlierDifference
  <2>5. s[i] \in Nat /\ t[i] \in Nat /\ s[i] # t[i]
    BY <1>1
  <2>. QED  BY <2>4, <2>5
<1>3. CASE T = {}
  <2>1. \A j \in DOMAIN s : j \in DOMAIN t => s[j] = t[j]
    BY <1>1, <1>3
  <2>2. Len(t) <= Len(s) /\ Len(s) <= Len(t)
    BY <2>1, NoLongerList
  <2>. HIDE DEF T
  <2>3. Len(s) = Len(t)
    <3>. HIDE DEF Lists
    <3>1. Len(s) \in Int /\ Len(t) \in Int
      BY <1>1
    <3>. QED  BY <2>2, <3>1
  <2>4. \A j \in 1..Len(s) : s[j] = t[j]
    BY <1>1, <2>1, <2>3
  <2>. QED  BY <1>1, <2>3, <2>4, SeqEqual
<1>. QED  BY <1>2, <1>3

-----------------------------------------------------------------------------
(* The walk.                                                                *)

Around(x) == Walk!PathTo(parent, parent[x]) \cap Walk!Spaces

TreeOk == parent \in Downward /\ 1 \in Walk!Spaces

(* The spaces around a node on the stack are the first open ones, as many   *)
(* as its level says.                                                       *)
Fits(e) ==
    /\ e.node \in Walk!Nodes /\ e.level \in 0..Len(open)
    /\ {open[i] : i \in 1..e.level} = Around(e.node)

RootEntry == [node |-> 1, level |-> 0]
Entries == [node : Nat, level : Nat]

WalkTyped ==
    /\ stack \in Seq(Entries) /\ current \in Entries
    /\ open \in Seq(Nat) /\ Increasing(open)
    /\ lastLevel \in Nat /\ diff \in Nat

StackFits ==
    /\ \A i \in DOMAIN stack : Fits(stack[i])
    /\ \A i, j \in DOMAIN stack : i < j => stack[i].level <= stack[j].level

(* A node has come from the stack, and spaces it is not in are being closed.*)
Arrived ==
    /\ Fits(current) /\ lastLevel = current.level
    /\ Len(open) = current.level + diff
    /\ \A i \in DOMAIN stack : stack[i].level <= current.level
    /\ \/ current = RootEntry /\ stack = <<>> /\ open = <<>>
       \/ current.level >= 1 /\ \A i \in DOMAIN stack : stack[i].level >= 1

Looking ==
    /\ lastLevel = Len(open)
    /\ \/ stack = <<RootEntry>> /\ open = <<>>
       \/ \A i \in DOMAIN stack : stack[i].level >= 1

WalkInv ==
    /\ TreeOk /\ WalkTyped
    /\ pc \in {"loop", "visit"} \/ (pc = "finalize" /\ current # Walk!Nothing) => StackFits
    /\ pc = "loop" => Looking
    /\ pc \in {"finalize", "visit"} /\ current # Walk!Nothing => Arrived
    /\ pc = "visit" => diff = 0 /\ current # Walk!Nothing

LEMMA PathsInParents ==
    ASSUME NEW p \in Walk!Parents
    PROVE  p \in Downward
<1>1. p[1] = 0 /\ \A x \in Walk!Nodes \ {1} : p[x] < x
  BY DEF Walk!Parents
<1>2. \A x \in Walk!Nodes : p[x] < x
  BY <1>1 DEF Walk!Nodes
<1>. QED  BY <1>2 DEF Downward, Walk!Parents

LEMMA WalkInit ==
    ASSUME Walk!Init, RootKinds \subseteq Walk!SpaceKinds
    PROVE  WalkInv
<1>0. SpaceNodes \in Nat /\ 1 \in Walk!Nodes
  BY SizeAssumption DEF Walk!Nodes
<1>1. TreeOk
  <2>1. kind[1] \in RootKinds
    BY DEF Walk!Init, Walk!WellKinded
  <2>. QED  BY <1>0, <2>1, PathsInParents DEF Walk!Init, TreeOk, Walk!Spaces
<1>2. stack = <<RootEntry>> /\ open = <<>> /\ lastLevel = 0 /\ current = Walk!Nothing /\ diff = 0 /\ pc = "loop"
  BY DEF Walk!Init, Walk!Start, RootEntry
<1>3. WalkTyped
  <2>1. RootEntry \in Entries /\ Walk!Nothing \in Entries
    BY DEF RootEntry, Walk!Nothing, Entries
  <2>. QED  BY <1>2, <2>1 DEF WalkTyped, Increasing
<1>4. parent[1] = 0
  BY DEF Walk!Init, Walk!Parents
<1>5. Around(1) = {}
  BY <1>1, <1>4, PathUnfolds DEF Around, TreeOk
<1>6. Fits(RootEntry)
  BY <1>0, <1>2, <1>5 DEF Fits, RootEntry
<1>7. StackFits
  BY <1>2, <1>6 DEF StackFits, RootEntry
<1>. QED  BY <1>1, <1>2, <1>3, <1>7 DEF WalkInv, Looking

(* While the tree and the open spaces stay, so does what fits.              *)
LEMMA SameFits ==
    ASSUME UNCHANGED <<parent, kind, open>>
    PROVE  /\ TreeOk' <=> TreeOk
           /\ \A e : Fits(e)' <=> Fits(e)
BY DEF TreeOk, Fits, Around, Walk!Spaces

LEMMA LastAndFront ==
    ASSUME NEW S, NEW s \in Seq(S), s # <<>>
    PROVE  /\ Len(s) \in DOMAIN s /\ Walk!Last(s) = s[Len(s)] /\ Walk!Last(s) \in S
           /\ Walk!Front(s) \in Seq(S) /\ Len(Walk!Front(s)) = Len(s) - 1
           /\ DOMAIN Walk!Front(s) = 1..(Len(s) - 1)
           /\ \A i \in 1..(Len(s) - 1) : Walk!Front(s)[i] = s[i] /\ i \in DOMAIN s
<1>1. Len(s) \in Nat /\ Len(s) >= 1 /\ DOMAIN s = 1..Len(s)
  OBVIOUS
<1>2. Walk!Last(s) = s[Len(s)] /\ Len(s) \in DOMAIN s
  BY <1>1 DEF Walk!Last
<1>. DEFINE n == Len(s) - 1
<1>3. n \in Nat /\ \A i \in 1..n : s[i] \in S /\ i \in DOMAIN s
  BY <1>1
<1>. HIDE DEF n
<1>4. /\ SubSeq(s, 1, n) \in Seq(S) /\ Len(SubSeq(s, 1, n)) = n
      /\ \A i \in 1..n : SubSeq(s, 1, n)[i] = s[i]
  BY <1>3, SubSeqProperties
<1>5. Walk!Front(s) = SubSeq(s, 1, n)
  BY DEF Walk!Front, n
<1>6. Walk!Front(s) \in Seq(S) /\ Len(Walk!Front(s)) = n /\ \A i \in 1..n : Walk!Front(s)[i] = s[i]
  BY <1>4, <1>5
<1>7. DOMAIN Walk!Front(s) = 1..n
  BY <1>6
<1>8. Walk!Last(s) \in S
  BY <1>2
<1>9. n = Len(s) - 1
  BY DEF n
<1>. QED  BY <1>2, <1>3, <1>6, <1>7, <1>8, <1>9

LEMMA PopKeeps ==
    ASSUME WalkInv, Walk!Pop
    PROVE  WalkInv'
<1>1. /\ TreeOk /\ WalkTyped /\ StackFits /\ Looking /\ stack # <<>>
      /\ UNCHANGED <<parent, kind, open>>
  BY DEF WalkInv, Walk!Pop, Walk!tree
<1>2. current' = Walk!Last(stack) /\ stack' = Walk!Front(stack) /\ pc' \in {"visit", "finalize"}
  BY DEF Walk!Pop
<1>3. /\ Len(stack) \in DOMAIN stack /\ current' = stack[Len(stack)] /\ current' \in Entries
      /\ stack' \in Seq(Entries) /\ DOMAIN stack' = 1..(Len(stack) - 1)
      /\ \A i \in DOMAIN stack' : stack'[i] = stack[i] /\ i \in DOMAIN stack /\ i < Len(stack)
  <2>1. stack \in Seq(Entries) /\ Len(stack) \in Nat
    BY <1>1 DEF WalkTyped
  <2>2. /\ Len(stack) \in DOMAIN stack /\ current' = stack[Len(stack)] /\ current' \in Entries
        /\ stack' \in Seq(Entries) /\ DOMAIN stack' = 1..(Len(stack) - 1)
        /\ \A i \in 1..(Len(stack) - 1) : stack'[i] = stack[i] /\ i \in DOMAIN stack
    BY <1>1, <1>2, <2>1, LastAndFront
  <2>3. \A i \in 1..(Len(stack) - 1) : i < Len(stack)
    BY <2>1
  <2>. QED  BY <2>2, <2>3
<1>4. Fits(current') /\ current'.level \in 0..Len(open)
  BY <1>1, <1>3 DEF StackFits, Fits
<1>5. /\ lastLevel' = current'.level
      /\ diff' \in Nat
      /\ Len(open) = current'.level + diff'
      /\ pc' = "visit" => diff' = 0
  BY <1>1, <1>2, <1>4 DEF Walk!Pop, Looking, WalkTyped
<1>6. StackFits'
  BY <1>1, <1>3, SameFits DEF StackFits
<1>7. \A i \in DOMAIN stack' : stack'[i].level <= current'.level
  BY <1>1, <1>3 DEF StackFits
<1>8. \/ current' = RootEntry /\ stack' = <<>> /\ open = <<>>
      \/ current'.level >= 1 /\ \A i \in DOMAIN stack' : stack'[i].level >= 1
  <2>1. CASE stack = <<RootEntry>> /\ open = <<>>
    <3>1. Len(stack) = 1 /\ current' = RootEntry
      BY <1>3, <2>1
    <3>2. stack' = <<>>
      BY <1>3, <3>1
    <3>. QED  BY <2>1, <3>1, <3>2
  <2>2. CASE \A i \in DOMAIN stack : stack[i].level >= 1
    BY <1>3, <2>2
  <2>. QED  BY <1>1, <2>1, <2>2 DEF Looking
<1>9. Arrived'
  BY <1>1, <1>4, <1>5, <1>7, <1>8, SameFits DEF Arrived
<1>10. WalkTyped'
  BY <1>1, <1>3, <1>5 DEF WalkTyped, Entries, Fits
<1>11. current' # Walk!Nothing
  BY <1>4 DEF Fits, Walk!Nothing, Walk!Nodes
<1>. QED  BY <1>1, <1>2, <1>5, <1>6, <1>9, <1>10, <1>11, SameFits DEF WalkInv

LEMMA DrainedKeeps ==
    ASSUME WalkInv, Walk!Drained
    PROVE  WalkInv'
<1>1. /\ TreeOk /\ WalkTyped
      /\ UNCHANGED <<parent, kind, open, stack, lastLevel>> /\ current' = Walk!Nothing
      /\ diff' = SpaceNodes + 1 /\ pc' = "finalize"
  BY DEF WalkInv, Walk!Drained, Walk!tree
<1>2. WalkTyped'
  BY <1>1, SizeAssumption DEF WalkTyped, Walk!Nothing, Entries
<1>. QED  BY <1>1, <1>2, SameFits DEF WalkInv

(* The last open space is not closed before the walk is over.               *)
LEMMA LastStaysOpen ==
    ASSUME WalkInv, Walk!FinalizeLast
    PROVE  current = Walk!Nothing
<1>. SUFFICES ASSUME current # Walk!Nothing PROVE FALSE
  OBVIOUS
<1>1. Arrived /\ diff > 0 /\ Len(open) = 1 /\ diff \in Nat /\ current \in Entries /\ open \in Seq(Nat)
  BY DEF WalkInv, Walk!FinalizeLast, WalkTyped
<1>2. current.level \in Nat /\ open # <<>>
  <2>1. open # <<>>
    <3>1. Len(open) = 1
      BY <1>1
    <3>. QED  BY <3>1
  <2>2. \A e \in Entries : e.level \in Nat
    BY DEF Entries
  <2>. QED  BY <1>1, <2>1, <2>2
<1>3. current.level >= 1
  BY <1>1, <1>2 DEF Arrived
<1>. QED  BY <1>1, <1>2, <1>3 DEF Arrived

LEMMA FinalizeLastKeeps ==
    ASSUME WalkInv, Walk!FinalizeLast
    PROVE  WalkInv'
<1>1. current = Walk!Nothing
  BY LastStaysOpen
<1>2. /\ TreeOk /\ WalkTyped /\ pc = "finalize" /\ diff' = 0
      /\ UNCHANGED <<parent, kind, stack, open, lastLevel, current, pc>>
  BY DEF WalkInv, Walk!FinalizeLast, Walk!tree, Walk!walk
<1>. QED  BY <1>1, <1>2, SameFits DEF WalkInv, WalkTyped

LEMMA FinalizeInnerKeeps ==
    ASSUME WalkInv, Walk!FinalizeInner
    PROVE  WalkInv'
<1>1. /\ TreeOk /\ WalkTyped /\ pc = "finalize" /\ pc' = pc /\ diff > 0 /\ Len(open) > 1
      /\ open' = Walk!Front(open) /\ diff' = diff - 1
      /\ UNCHANGED <<parent, kind, stack, lastLevel, current>>
  BY DEF WalkInv, Walk!FinalizeInner, Walk!tree
<1>2. /\ open \in Seq(Nat) /\ open # <<>> /\ diff \in Nat
      /\ Len(open) \in Nat
  BY <1>1 DEF WalkTyped
<1>3. /\ open' \in Seq(Nat) /\ Len(open') = Len(open) - 1
      /\ DOMAIN open' = 1..(Len(open) - 1) /\ DOMAIN open = 1..Len(open)
      /\ \A i \in 1..(Len(open) - 1) : open'[i] = open[i]
  <2>1. /\ Walk!Front(open) \in Seq(Nat) /\ Len(Walk!Front(open)) = Len(open) - 1
        /\ DOMAIN Walk!Front(open) = 1..(Len(open) - 1)
        /\ \A i \in 1..(Len(open) - 1) : Walk!Front(open)[i] = open[i]
    BY <1>2, LastAndFront
  <2>2. DOMAIN open = 1..Len(open)
    BY <1>2
  <2>. QED  BY <1>1, <2>1, <2>2
<1>4. WalkTyped'
  <2>1. DOMAIN open' \subseteq DOMAIN open /\ \A i \in DOMAIN open' : open'[i] = open[i]
    BY <1>2, <1>3
  <2>2. Increasing(open')
    BY <1>1, <2>1 DEF WalkTyped, Increasing
  <2>3. diff - 1 \in Nat
    BY <1>1, <1>2
  <2>. QED  BY <1>1, <1>3, <2>2, <2>3 DEF WalkTyped
<1>5. TreeOk'
  BY <1>1 DEF TreeOk, Walk!Spaces
<1>6. CASE current # Walk!Nothing
  <2>1. Arrived /\ StackFits
    BY <1>1, <1>6 DEF WalkInv
  <2>2. current.level \in Nat /\ current.level <= Len(open) - 1
    BY <1>1, <1>2, <2>1 DEF Arrived, WalkTyped, Entries
  <2>3. ASSUME NEW CONSTANT e, Fits(e), e.level <= current.level PROVE Fits(e)'
    <3>1. e.level \in 0..Len(open')
      BY <1>2, <1>3, <2>2, <2>3 DEF Fits
    <3>2. \A i \in 1..e.level : open'[i] = open[i]
      BY <1>2, <1>3, <2>2, <3>1
    <3>3. Around(e.node)' = Around(e.node)
      BY <1>1 DEF Around, Walk!Spaces
    <3>. QED  BY <2>3, <3>1, <3>2, <3>3 DEF Fits
  <2>4. StackFits'
    BY <1>1, <2>1, <2>3 DEF StackFits, Arrived
  <2>5. Fits(current)'
    <3>1. Fits(current) /\ current.level <= current.level
      BY <2>1, <2>2 DEF Arrived
    <3>2. \A e : Fits(e) /\ e.level <= current.level => Fits(e)'
      BY <2>3
    <3>3. \A e : current = e => (Fits(e)' <=> Fits(current)')
      BY <1>1 DEF Fits, Around
    <3>. QED  BY <3>1, <3>2, <3>3
  <2>6. open # <<>>
    BY <1>2
  <2>7. Arrived'
    BY <1>1, <1>2, <1>3, <2>1, <2>2, <2>5, <2>6 DEF Arrived
  <2>. QED  BY <1>1, <1>4, <1>5, <2>4, <2>7 DEF WalkInv
<1>7. CASE current = Walk!Nothing
  BY <1>1, <1>4, <1>5, <1>7 DEF WalkInv
<1>. QED  BY <1>6, <1>7

LEMMA FinalizedKeeps ==
    ASSUME WalkInv, Walk!Finalized
    PROVE  WalkInv'
<1>1. /\ TreeOk /\ WalkTyped /\ Arrived /\ StackFits /\ current # Walk!Nothing
      /\ diff = 0 \/ open = <<>>
      /\ UNCHANGED <<parent, kind, stack, open, lastLevel, current>> /\ diff' = 0 /\ pc' = "visit"
  BY DEF WalkInv, Walk!Finalized, Walk!tree, Walk!walk
<1>2. diff = 0
  BY <1>1 DEF Arrived, WalkTyped, Entries
<1>3. StackFits' /\ Arrived'
  BY <1>1, <1>2, SameFits DEF StackFits, Arrived
<1>. QED  BY <1>1, <1>3, SameFits DEF WalkInv, WalkTyped

LEMMA ReturnKeeps ==
    ASSUME WalkInv, Walk!Return
    PROVE  WalkInv'
<1>1. /\ TreeOk /\ WalkTyped /\ pc' = "returned" /\ diff' = 0
      /\ open' = open \/ (open # <<>> /\ open' = Walk!Front(open))
      /\ UNCHANGED <<parent, kind, stack, lastLevel, current>>
  BY DEF WalkInv, Walk!Return, Walk!tree
<1>2. open' \in Seq(Nat) /\ Increasing(open')
  <2>1. CASE open # <<>> /\ open' = Walk!Front(open)
    <3>1. /\ open' \in Seq(Nat) /\ DOMAIN open' \subseteq DOMAIN open
          /\ \A i \in DOMAIN open' : open'[i] = open[i]
      BY <1>1, <2>1, LastAndFront DEF WalkTyped
    <3>. QED  BY <1>1, <3>1 DEF WalkTyped, Increasing
  <2>. QED  BY <1>1, <2>1 DEF WalkTyped
<1>. QED  BY <1>1, <1>2 DEF WalkInv, WalkTyped, TreeOk, Walk!Spaces

(* The children of a node are pushed, in whatever order.                    *)
LEMMA ChildrenReversed ==
    ASSUME NEW x \in Walk!Nodes
    PROVE  /\ Walk!Reverse(Walk!Children(x)) \in Seq(Nat)
           /\ \A i \in DOMAIN Walk!Reverse(Walk!Children(x)) :
                Walk!Reverse(Walk!Children(x))[i] \in Walk!Nodes /\ parent[Walk!Reverse(Walk!Children(x))[i]] = x
<1>. DEFINE S == {c \in Walk!Nodes : parent[c] = x}
            cs == Walk!InSourceOrder(S)
<1>1. cs \in Seq(Nat) /\ {cs[i] : i \in DOMAIN cs} = S
  <2>1. Lists(cs, S \cap Walk!Nodes)
    BY InSourceOrderLists
  <2>. QED  BY <2>1 DEF Lists
<1>2. Walk!Children(x) = cs
  BY DEF Walk!Children
<1>. HIDE DEF cs
<1>3. Len(cs) \in Nat /\ DOMAIN cs = 1..Len(cs)
  BY <1>1
<1>4. Walk!Reverse(cs) = [i \in 1..Len(cs) |-> cs[(Len(cs) - i) + 1]]
  BY DEF Walk!Reverse
<1>5. \A i \in 1..Len(cs) : (Len(cs) - i) + 1 \in DOMAIN cs
  BY <1>3
<1>. DEFINE rev == Walk!Reverse(cs)
<1>6. \A i \in 1..Len(cs) : cs[(Len(cs) - i) + 1] \in S /\ cs[(Len(cs) - i) + 1] \in Nat
  BY <1>1, <1>5
<1>7. \A i \in 1..Len(cs) : rev[i] \in S /\ rev[i] \in Nat
  BY <1>4, <1>6
<1>8. rev \in Seq(Nat) /\ DOMAIN rev = 1..Len(cs)
  <2>1. [i \in 1..Len(cs) |-> cs[(Len(cs) - i) + 1]] \in Seq(Nat)
    BY <1>3, <1>6, IsASeq
  <2>. QED  BY <1>4, <2>1
<1>9. Walk!Reverse(Walk!Children(x)) = rev
  BY <1>2
<1>. HIDE DEF rev
<1>10. \A i \in DOMAIN rev : rev[i] \in Walk!Nodes /\ parent[rev[i]] = x
  BY <1>7, <1>8
<1>. QED  BY <1>8, <1>9, <1>10

LEMMA AroundChild ==
    ASSUME TreeOk, NEW x \in Walk!Nodes, NEW c \in Walk!Nodes, parent[c] = x
    PROVE  Around(c) = Around(x) \cup ({x} \cap Walk!Spaces)
BY PathUnfolds DEF TreeOk, Around

LEMMA AroundIsSmaller ==
    ASSUME TreeOk, NEW x \in Walk!Nodes
    PROVE  \A y \in Around(x) : y \in Nat /\ y < x
<1>1. parent[x] \in 0..(SpaceNodes - 1) /\ parent[x] < x /\ x \in Nat /\ SpaceNodes \in Nat
  BY SizeAssumption DEF TreeOk, Downward, Walk!Nodes
<1>2. Walk!PathTo(parent, parent[x]) \subseteq 1..parent[x]
  BY <1>1, PathIsAbove DEF TreeOk
<1>. QED  BY <1>1, <1>2 DEF Around

(* When the walk comes to a node, what is open is what is around it.        *)
LEMMA OpenIsAround ==
    ASSUME WalkInv, pc = "visit"
    PROVE  Lists(open, Around(current.node))
<1>1. Arrived /\ WalkTyped /\ diff = 0
  BY DEF WalkInv
<1>2. Len(open) = current.level /\ DOMAIN open = 1..Len(open)
  BY <1>1 DEF Arrived, WalkTyped, Entries
<1>. QED  BY <1>1, <1>2 DEF Arrived, Fits, Lists, WalkTyped

LEMMA VisitKeeps ==
    ASSUME WalkInv, Walk!Visit
    PROVE  WalkInv'
<1>. DEFINE x == current.node
            children == Walk!Reverse(Walk!Children(x))
            below == IF x \in Walk!Spaces THEN current.level + 1 ELSE current.level
            pushed == [i \in DOMAIN children |-> [node |-> children[i], level |-> below]]
<1>1. /\ TreeOk /\ WalkTyped /\ StackFits /\ Arrived /\ diff = 0 /\ current # Walk!Nothing /\ pc = "visit"
      /\ UNCHANGED <<parent, kind, current, diff>> /\ pc' = "loop"
      /\ open' = IF x \in Walk!Spaces THEN Append(open, x) ELSE open
      /\ lastLevel' = IF x \in Walk!Spaces THEN below ELSE lastLevel
      /\ stack' = stack \o pushed
  BY DEF WalkInv, Walk!Visit, Walk!tree
<1>2. /\ x \in Walk!Nodes /\ x \in Nat /\ current.level \in Nat
      /\ Len(open) = current.level /\ lastLevel = current.level /\ open \in Seq(Nat)
      /\ stack \in Seq(Entries)
  BY <1>1 DEF Arrived, Fits, WalkTyped, Entries, Walk!Nodes
<1>3. Lists(open', Around(x) \cup ({x} \cap Walk!Spaces))
  <2>1. Lists(open, Around(x))
    BY <1>1, OpenIsAround
  <2>2. CASE x \in Walk!Spaces
    BY <1>1, <1>2, <2>1, <2>2, AroundIsSmaller, ListsGrow
  <2>3. CASE x \notin Walk!Spaces
    BY <1>1, <2>1, <2>3
  <2>. QED  BY <2>2, <2>3
<1>4. /\ open' \in Seq(Nat) /\ Increasing(open') /\ Len(open') = below /\ below \in Nat
      /\ current.level <= below /\ lastLevel' = below
      /\ \A i \in 1..Len(open) : open'[i] = open[i]
  BY <1>1, <1>2, <1>3 DEF Lists
<1>5. TreeOk' /\ \A c \in Walk!Nodes : Around(c)' = Around(c)
  BY <1>1 DEF TreeOk, Walk!Spaces, Around
<1>6. /\ children \in Seq(Nat)
      /\ \A i \in DOMAIN children : children[i] \in Walk!Nodes /\ parent[children[i]] = x
  BY <1>2, ChildrenReversed
<1>. HIDE DEF x, below, children
<1>7. /\ pushed \in Seq(Entries) /\ DOMAIN pushed = 1..Len(pushed) /\ DOMAIN pushed = DOMAIN children
      /\ \A i \in DOMAIN pushed : pushed[i].node = children[i] /\ pushed[i].level = below
  <2>1. \A i \in DOMAIN children : [node |-> children[i], level |-> below] \in Entries
    BY <1>4, <1>6 DEF Entries
  <2>2. DOMAIN children = 1..Len(children) /\ Len(children) \in Nat
    BY <1>6
  <2>. QED  BY <2>1, <2>2, IsASeq
<1>. HIDE DEF pushed
<1>8. /\ stack' \in Seq(Entries) /\ DOMAIN stack' = 1..(Len(stack) + Len(pushed))
      /\ Len(stack) \in Nat /\ Len(pushed) \in Nat /\ DOMAIN stack = 1..Len(stack)
      /\ \A i \in 1..(Len(stack) + Len(pushed)) :
            IF i <= Len(stack) THEN i \in DOMAIN stack /\ stack'[i] = stack[i]
            ELSE i - Len(stack) \in DOMAIN pushed /\ stack'[i] = pushed[i - Len(stack)]
  <2>1. Len(stack) \in Nat /\ Len(pushed) \in Nat /\ DOMAIN stack = 1..Len(stack)
    BY <1>2, <1>7
  <2>2. /\ stack' \in Seq(Entries) /\ Len(stack') = Len(stack) + Len(pushed)
        /\ \A i \in 1..(Len(stack) + Len(pushed)) :
              stack'[i] = IF i <= Len(stack) THEN stack[i] ELSE pushed[i - Len(stack)]
    BY <1>1, <1>2, <1>7, ConcatProperties
  <2>3. DOMAIN stack' = 1..(Len(stack) + Len(pushed))
    BY <2>2
  <2>4. \A i \in 1..(Len(stack) + Len(pushed)) :
           IF i <= Len(stack) THEN i \in 1..Len(stack) ELSE i - Len(stack) \in 1..Len(pushed)
    BY <2>1
  <2>. QED  BY <1>7, <2>1, <2>2, <2>3, <2>4
<1>9. \A i \in DOMAIN stack' :
        \/ i \in DOMAIN stack /\ stack'[i] = stack[i] /\ i <= Len(stack)
        \/ ~(i <= Len(stack)) /\ stack'[i].level = below /\ stack'[i].node \in Walk!Nodes /\ parent[stack'[i].node] = x
  <2>1. \A k \in DOMAIN pushed :
           pushed[k].level = below /\ pushed[k].node \in Walk!Nodes /\ parent[pushed[k].node] = x
    BY <1>6, <1>7
  <2>2. ASSUME NEW i \in DOMAIN stack'
        PROVE  IF i <= Len(stack) THEN i \in DOMAIN stack /\ stack'[i] = stack[i]
               ELSE i - Len(stack) \in DOMAIN pushed /\ stack'[i] = pushed[i - Len(stack)]
    BY <1>8
  <2>. QED  BY <2>1, <2>2
<1>10. ASSUME NEW CONSTANT i, NEW CONSTANT e, i \in DOMAIN stack', e = stack'[i] PROVE Fits(e)'
  <2>1. CASE i \in DOMAIN stack /\ stack'[i] = stack[i]
    <3>1. Fits(e) /\ e.level <= current.level
      BY <1>1, <1>10, <2>1 DEF StackFits, Arrived
    <3>2. e.node \in Walk!Nodes /\ e.level \in Nat /\ e.level <= Len(open)
      BY <1>2, <3>1 DEF Fits
    <3>3. e.level \in 0..Len(open')
      BY <1>2, <1>4, <3>1, <3>2
    <3>4. {open'[k] : k \in 1..e.level} = Around(e.node)
      <4>1. \A k \in 1..e.level : k \in 1..Len(open)
        BY <1>2, <3>2
      <4>. QED  BY <1>4, <3>1, <4>1 DEF Fits
    <3>. QED  BY <1>5, <3>2, <3>3, <3>4 DEF Fits
  <2>2. CASE stack'[i].level = below /\ stack'[i].node \in Walk!Nodes /\ parent[stack'[i].node] = x
    <3>0. e.level = below /\ e.node \in Walk!Nodes /\ parent[e.node] = x
      BY <1>10, <2>2
    <3>1. Around(e.node) = Around(x) \cup ({x} \cap Walk!Spaces)
      BY <1>1, <1>2, <3>0, AroundChild
    <3>2. {open'[k] : k \in 1..below} = Around(e.node)
      <4>1. DOMAIN open' = 1..below
        BY <1>4
      <4>. QED  BY <1>3, <3>1, <4>1 DEF Lists
    <3>3. below \in 0..Len(open')
      BY <1>4
    <3>. QED  BY <1>5, <3>0, <3>2, <3>3 DEF Fits
  <2>. QED  BY <1>9, <1>10, <2>1, <2>2
<1>11. ASSUME NEW i \in DOMAIN stack', NEW j \in DOMAIN stack', i < j
       PROVE  stack'[i].level <= stack'[j].level
  <2>1. i \in Nat /\ j \in Nat /\ Len(stack) \in Nat
    BY <1>8
  <2>2. CASE j <= Len(stack)
    <3>1. i <= Len(stack)
      BY <1>11, <2>1, <2>2
    <3>2. i \in DOMAIN stack /\ j \in DOMAIN stack /\ stack'[i] = stack[i] /\ stack'[j] = stack[j]
      BY <1>9, <2>2, <3>1
    <3>. QED  BY <1>1, <1>11, <3>2 DEF StackFits
  <2>3. CASE ~(j <= Len(stack))
    <3>1. stack'[j].level = below
      BY <1>9, <2>3
    <3>2. CASE i \in DOMAIN stack /\ stack'[i] = stack[i]
      <4>1. stack[i].level <= current.level /\ stack[i].level \in Nat
        <5>1. stack[i] \in Entries
          BY <1>2, <3>2
        <5>2. stack[i].level \in Nat
          BY <5>1 DEF Entries
        <5>. QED  BY <1>1, <3>2, <5>2 DEF Arrived
      <4>. QED  BY <1>2, <1>4, <3>1, <3>2, <4>1
    <3>3. CASE stack'[i].level = below
      BY <1>4, <3>1, <3>3
    <3>. QED  BY <1>9, <3>2, <3>3
  <2>. QED  BY <2>2, <2>3
<1>12. below >= 1
  <2>1. CASE current = RootEntry
    <3>1. x \in Walk!Spaces
      BY <1>1, <2>1 DEF TreeOk, RootEntry, x
    <3>. QED  BY <1>2, <3>1 DEF below
  <2>2. CASE current.level >= 1
    BY <1>2, <1>4, <2>2
  <2>. QED  BY <1>1, <2>1, <2>2 DEF Arrived
<1>13. ASSUME NEW i \in DOMAIN stack' PROVE stack'[i].level >= 1
  <2>1. CASE i \in DOMAIN stack /\ stack'[i] = stack[i]
    BY <1>1, <1>2, <2>1 DEF Arrived
  <2>. QED  BY <1>9, <1>12, <2>1
<1>14. WalkTyped'
  BY <1>1, <1>4, <1>8 DEF WalkTyped
<1>15. StackFits'
  <2>1. \A i, e : i \in DOMAIN stack' /\ e = stack'[i] => Fits(e)'
    BY <1>10
  <2>2. \A i \in DOMAIN stack' : Fits(stack[i])'
    BY <2>1 DEF Fits, Around
  <2>. QED  BY <1>11, <2>2 DEF StackFits
<1>16. Looking'
  BY <1>4, <1>13 DEF Looking
<1>. QED  BY <1>1, <1>5, <1>14, <1>15, <1>16 DEF WalkInv

LEMMA WalkNext ==
    ASSUME WalkInv, Walk!Next
    PROVE  WalkInv'
BY PopKeeps, DrainedKeeps, FinalizeLastKeeps, FinalizeInnerKeeps, FinalizedKeeps, ReturnKeeps,
   VisitKeeps DEF Walk!Next

LEMMA WalkStutters ==
    ASSUME WalkInv, UNCHANGED Walk!vars
    PROVE  WalkInv'
<1>1. UNCHANGED <<parent, kind, stack, open, lastLevel, current, diff, pc>>
  BY DEF Walk!vars, Walk!tree, Walk!walk
<1>. QED  BY <1>1, SameFits
          DEF WalkInv, WalkTyped, StackFits, Looking, Arrived, Increasing

LEMMA WalkTells ==
    ASSUME WalkInv
    PROVE  Walk!OpenEnclosesCurrent
<1>. SUFFICES ASSUME pc = "visit"
              PROVE  /\ open = Walk!InSourceOrder(Walk!Ancestors(current.node) \cap Walk!Spaces)
                     /\ lastLevel = Len(open)
                     /\ current.level = lastLevel
  BY DEF Walk!OpenEnclosesCurrent
<1>1. TreeOk /\ WalkTyped /\ Arrived /\ diff = 0
  BY DEF WalkInv
<1>2. current.node \in Walk!Nodes /\ current.level \in Nat
  BY <1>1 DEF Arrived, Fits, WalkTyped, Entries
<1>3. Walk!Ancestors(current.node) \cap Walk!Spaces = Around(current.node)
  <2>1. Walk!PathTo(parent, current.node) = {current.node} \cup Walk!PathTo(parent, parent[current.node])
    BY <1>1, <1>2, PathUnfolds DEF TreeOk
  <2>2. \A y \in Around(current.node) : y # current.node
    BY <1>1, <1>2, AroundIsSmaller
  <2>. QED  BY <2>1, <2>2 DEF Walk!Ancestors, Around
<1>4. Lists(Walk!InSourceOrder(Around(current.node)), Around(current.node) \cap Walk!Nodes)
  BY InSourceOrderLists
<1>5. Around(current.node) \cap Walk!Nodes = Around(current.node)
  BY DEF Around, Walk!Spaces
<1>6. open = Walk!InSourceOrder(Around(current.node))
  BY <1>4, <1>5, OpenIsAround, OneList
<1>7. lastLevel = current.level /\ Len(open) = current.level
  BY <1>1, <1>2 DEF Arrived
<1>. QED  BY <1>3, <1>6, <1>7

-----------------------------------------------------------------------------
(* The walk is one of the subjects; the others never become it.             *)
SpacesInv == subject = "spaces" => WalkInv

(* A node is measured into the space it is in, whatever the shape of the    *)
(* tree: while the walk of metrics() is in a node, the open states are the  *)
(* spaces around it, outermost first, and last_level counts them.  The root *)
(* is a space here; below tree-sitter's ERROR root it does not hold.        *)
THEOREM OpenEnclosesCurrentHolds ==
    ASSUME RootKinds \subseteq Walk!SpaceKinds
    PROVE  MetricsSpec => []OpenEnclosesCurrent
<1>1. MetricsInit => SpacesInv
  BY WalkInit DEF MetricsInit, SpacesInv
<1>2. SpacesInv /\ [MetricsNext]_allVars => SpacesInv'
  <2>. SUFFICES ASSUME SpacesInv, [MetricsNext]_allVars, subject' = "spaces" PROVE WalkInv'
    BY DEF SpacesInv
  <2>1. CASE UNCHANGED allVars
    <3>1. UNCHANGED Walk!vars /\ subject = "spaces"
      BY <2>1 DEF allVars, walkOnly, Walk!vars, Walk!tree, Walk!walk
    <3>. QED  BY <3>1, WalkStutters DEF SpacesInv
  <2>2. CASE Spaces(Walk!Next)
    BY <2>2, WalkNext DEF Spaces, Step, SpacesInv
  <2>3. CASE \/ Runner(Next) \/ Calls(Cycles!Next) \/ Rows(Lines!Next) \/ Charges(Cognitive!Next)
             \/ Held(Memory!Next) \/ Tests(Conditions!Next) \/ Inventories(Classes!Next)
    <3>1. subject # "spaces" /\ subject' = subject
      BY <2>3 DEF Runner, Calls, Rows, Charges, Held, Tests, Inventories, Step
    <3>. QED  BY <3>1
  <2>. QED  BY <2>1, <2>2, <2>3 DEF MetricsNext
<1>3. SpacesInv => OpenEnclosesCurrent
  BY WalkTells DEF SpacesInv, OpenEnclosesCurrent
<1>. QED  BY <1>1, <1>2, <1>3, PTL DEF MetricsSpec


-----------------------------------------------------------------------------
(* The same for the lines of a file.                                        *)
LinesRowsInv == subject = "lines" => RowsInv

(* In every space that is left, however many spaces and nodes share a row,  *)
(* it is counted as code once; no comment is taken back that was not        *)
(* counted; and in an ordinary file every row is code, comment or blank,    *)
(* and exactly one of them (Stats of metrics/loc.rs and its merge).         *)
THEOREM RowsAreSortedHolds == MetricsSpec => []RowsAreSorted
<1>1. MetricsInit => LinesRowsInv
  BY InitRows DEF MetricsInit, LinesRowsInv
<1>2. LinesRowsInv /\ [MetricsNext]_allVars => LinesRowsInv'
  <2>. SUFFICES ASSUME LinesRowsInv, [MetricsNext]_allVars, subject' = "lines" PROVE RowsInv'
    BY DEF LinesRowsInv
  <2>1. CASE UNCHANGED allVars
    <3>1. UNCHANGED Lines!vars /\ subject = "lines"
      BY <2>1 DEF allVars, Lines!vars
    <3>. QED  BY <3>1, RowsStutter DEF LinesRowsInv
  <2>2. CASE Rows(Lines!Next)
    <3>1. RowsInv /\ Lines!Next
      BY <2>2 DEF Rows, Step, LinesRowsInv
    <3>. QED  BY <3>1, CountRows, ReturnRows DEF Lines!Next
  <2>3. CASE \/ Runner(Next) \/ Calls(Cycles!Next) \/ Spaces(Walk!Next) \/ Charges(Cognitive!Next)
             \/ Held(Memory!Next) \/ Tests(Conditions!Next) \/ Inventories(Classes!Next)
    <3>1. subject # "lines" /\ subject' = subject
      BY <2>3 DEF Runner, Calls, Spaces, Charges, Held, Tests, Inventories, Step
    <3>. QED  BY <3>1
  <2>. QED  BY <2>1, <2>2, <2>3 DEF MetricsNext
<1>3. LinesRowsInv => RowsAreSorted
  BY RowsTell DEF LinesRowsInv, RowsAreSorted
<1>. QED  BY <1>1, <1>2, <1>3, PTL DEF MetricsSpec

-----------------------------------------------------------------------------
(* Functions that follow the links up: the value at x is made of x and of   *)
(* the value at the node above it.                                          *)
Upward(n, p) == n \in Nat /\ \A x \in 1..n : p[x] \in 0..(x - 1)
Climbed(g, n, p, V, v, s) ==
    /\ g \in [0..n -> V] /\ g[0] = v
    /\ \A x \in 1..n : g[x] = s[<<x, g[p[x]]>>]

LEMMA Climbs ==
    ASSUME NEW n, NEW p, Upward(n, p), NEW V, NEW v \in V, NEW s \in [(1..n) \X V -> V]
    PROVE  \E g : Climbed(g, n, p, V, v, s)
<1>. DEFINE Good(g, m) == /\ g \in [0..m -> V] /\ g[0] = v
                          /\ \A x \in 1..m : g[x] = s[<<x, g[p[x]]>>]
            T == {m \in 0..n : \E g : Good(g, m)}
<1>0. n \in Nat /\ \A x \in 1..n : p[x] \in 0..(x - 1)
  BY DEF Upward
<1>1. 0 \in T
  <2>. DEFINE g == [y \in 0..0 |-> v]
  <2>1. Good(g, 0)
    OBVIOUS
  <2>. HIDE DEF Good
  <2>. QED  BY <1>0, <2>1
<1>2. ASSUME NEW k \in 0..(n - 1), k \in T PROVE k + 1 \in T
  <2>1. PICK g : Good(g, k)
    BY <1>2
  <2>2. k \in Nat /\ k + 1 \in 1..n /\ k + 1 \in 0..n /\ p[k + 1] \in 0..k
    BY <1>0
  <2>3. g[p[k + 1]] \in V
    BY <2>1, <2>2
  <2>. DEFINE last == s[<<k + 1, g[p[k + 1]]>>]
              h == [y \in 0..(k + 1) |-> IF y = k + 1 THEN last ELSE g[y]]
  <2>4. last \in V
    BY <2>2, <2>3
  <2>5. /\ h[k + 1] = last /\ \A y \in 0..k : h[y] = g[y]
        /\ h \in [0..(k + 1) -> V]
    <3>. HIDE DEF last
    <3>1. \A y \in 0..k : g[y] \in V
      BY <2>1
    <3>2. \A y \in 0..(k + 1) : y = k + 1 \/ y \in 0..k
      BY <2>2
    <3>3. \A y \in 0..k : y # k + 1 /\ y \in 0..(k + 1)
      BY <2>2
    <3>. QED  BY <2>2, <2>4, <3>1, <3>2, <3>3
  <2>. HIDE DEF h
  <2>6. ASSUME NEW x \in 1..(k + 1) PROVE h[x] = s[<<x, h[p[x]]>>]
    <3>1. CASE x = k + 1
      BY <2>2, <2>5, <3>1
    <3>2. CASE x # k + 1
      <4>1. x \in 1..k /\ x \in 1..n /\ x \in 0..k
        BY <1>0, <2>2, <3>2
      <4>2. p[x] \in 0..k
        BY <1>0, <2>2, <4>1
      <4>3. g[x] = s[<<x, g[p[x]]>>]
        BY <2>1, <4>1
      <4>. QED  BY <2>5, <4>1, <4>2, <4>3
    <3>. QED  BY <3>1, <3>2
  <2>7. h[0] = v
    BY <2>1, <2>2, <2>5
  <2>8. Good(h, k + 1)
    BY <2>5, <2>6, <2>7
  <2>. HIDE DEF Good
  <2>. QED  BY <2>2, <2>8
<1>. HIDE DEF T
<1>3. n \in T
  <2>1. n \in 0..n
    BY <1>0
  <2>. QED  BY <1>0, <1>1, <1>2, <2>1, CountingUp
<1>. QED  BY <1>3 DEF T, Climbed

-----------------------------------------------------------------------------
(* The tree of a statement.                                                 *)

Path(x) == Conditions!Above(parent, x) \cup {x}

Shape ==
    /\ \A x \in Conditions!Nodes : parent[x] \in 0..(x - 1) /\ (x # 1 => parent[x] # 0)
    /\ \A x \in Conditions!Nodes :
         /\ x = 1 => Conditions!Kind(x) \in {"if", "switch", "statement"}
         /\ Conditions!Kind(x) \in {"if", "switch", "choose"} => Conditions!Below(x) # {}

LEMMA NodeBounds ==
    /\ ConditionNodes \in Nat
    /\ \A x \in Conditions!Nodes : x \in Nat /\ x >= 1 /\ x <= ConditionNodes /\ x \in 0..ConditionNodes /\ x \in 1..ConditionNodes
    /\ \A x \in Nat : x >= 1 /\ x <= ConditionNodes => x \in Conditions!Nodes
BY ConditionsAssumption DEF Conditions!Nodes

(* A property of the nodes that each has if those before it do.             *)
LEMMA FromTheRoot ==
    ASSUME NEW T, \A x \in Conditions!Nodes : (\A y \in Conditions!Nodes : y < x => y \in T) => x \in T
    PROVE  \A x \in Conditions!Nodes : x \in T
<1>. DEFINE Bad == {x \in Conditions!Nodes : x \notin T}
<1>. SUFFICES ASSUME Bad # {} PROVE FALSE
  OBVIOUS
<1>1. Bad \in SUBSET Nat
  BY NodeBounds
<1>2. PICK m \in Bad : \A y \in Bad : m <= y
  <2>. HIDE DEF Bad
  <2>. QED  BY <1>1, LeastExists
<1>3. \A y \in Conditions!Nodes : y < m => y \in T
  <2>1. m \in Nat /\ \A y \in Conditions!Nodes : y \in Nat
    BY NodeBounds
  <2>. QED  BY <1>2, <2>1
<1>. QED  BY <1>3

LEMMA FromTheLeaves ==
    ASSUME NEW T, \A x \in Conditions!Nodes : (\A y \in Conditions!Nodes : y > x => y \in T) => x \in T
    PROVE  \A x \in Conditions!Nodes : x \in T
<1>. DEFINE Bad == {k \in Nat : \E x \in Conditions!Nodes : x \notin T /\ k = ConditionNodes - x}
<1>. SUFFICES ASSUME NEW x \in Conditions!Nodes, x \notin T PROVE FALSE
  OBVIOUS
<1>1. ConditionNodes - x \in Bad
  BY NodeBounds
<1>2. PICK m \in Bad : \A k \in Bad : m <= k
  <2>1. Bad \in SUBSET Nat /\ Bad # {}
    BY <1>1
  <2>. HIDE DEF Bad
  <2>. QED  BY <2>1, LeastExists
<1>3. PICK z \in Conditions!Nodes : z \notin T /\ m = ConditionNodes - z
  OBVIOUS
<1>4. ASSUME NEW y \in Conditions!Nodes, y > z PROVE y \in T
  <2>. SUFFICES ASSUME y \notin T PROVE FALSE
    OBVIOUS
  <2>1. y \in Nat /\ z \in Nat /\ ConditionNodes \in Nat /\ y <= ConditionNodes /\ z <= ConditionNodes
    BY NodeBounds
  <2>2. ConditionNodes - y \in Bad /\ ConditionNodes - y \in Nat
    BY <2>1
  <2>3. m <= ConditionNodes - y
    BY <1>2, <2>2
  <2>. QED  BY <1>3, <1>4, <2>1, <2>3
<1>. QED  BY <1>3, <1>4

LEMMA PathsAre ==
    ASSUME Shape
    PROVE  \A x \in Conditions!Nodes :
              /\ x \in Path(x) /\ Path(x) \subseteq 1..x
              /\ Conditions!Above(parent, x) = Path(x) \ {x}
              /\ Conditions!Above(parent, x) = IF parent[x] = 0 THEN {} ELSE Path(parent[x])
<1>. DEFINE Def(g) == g = [y \in 0..ConditionNodes |-> IF y = 0 THEN {} ELSE {y} \cup g[parent[y]]]
            up == CHOOSE g : Def(g)
<1>0. ConditionNodes \in Nat /\ Conditions!Nodes = 1..ConditionNodes /\ \A x \in 1..ConditionNodes : parent[x] \in 0..(x - 1)
  BY NodeBounds DEF Shape, Conditions!Nodes
<1>1. \E g : Def(g)
  <2>. DEFINE s == [e \in (1..ConditionNodes) \X (SUBSET Nat) |-> {e[1]} \cup e[2]]
  <2>1. s \in [(1..ConditionNodes) \X (SUBSET Nat) -> SUBSET Nat]
    <3>1. \A e \in (1..ConditionNodes) \X (SUBSET Nat) : {e[1]} \cup e[2] \in SUBSET Nat
      BY <1>0
    <3>. QED  BY <3>1
  <2>2. \A x \in 1..ConditionNodes, S \in SUBSET Nat : s[<<x, S>>] = {x} \cup S
    OBVIOUS
  <2>3. {} \in SUBSET Nat
    OBVIOUS
  <2>. HIDE DEF s
  <2>4a. Upward(ConditionNodes, parent)
    BY <1>0 DEF Upward
  <2>4b. PICK g : Climbed(g, ConditionNodes, parent, SUBSET Nat, {}, s)
    BY <2>1, <2>3, <2>4a, Climbs
  <2>4. /\ g \in [0..ConditionNodes -> SUBSET Nat] /\ g[0] = {}
        /\ \A x \in 1..ConditionNodes : g[x] = s[<<x, g[parent[x]]>>]
    BY <2>4b DEF Climbed
  <2>5. \A x \in 1..ConditionNodes : g[x] = {x} \cup g[parent[x]]
    <3>1. \A x \in 1..ConditionNodes : parent[x] \in 0..ConditionNodes
      BY <1>0
    <3>2. \A x \in 1..ConditionNodes : g[parent[x]] \in SUBSET Nat
      BY <2>4, <3>1
    <3>. QED  BY <2>2, <2>4, <3>2
  <2>6. \A y \in 0..ConditionNodes : g[y] = IF y = 0 THEN {} ELSE {y} \cup g[parent[y]]
    <3>1. \A y \in 0..ConditionNodes : y = 0 \/ y \in 1..ConditionNodes
      BY <1>0
    <3>2. \A y \in 1..ConditionNodes : y # 0
      BY <1>0
    <3>. QED  BY <2>4, <2>5, <3>1, <3>2
  <2>7. g = [y \in 0..ConditionNodes |-> g[y]]
    BY <2>4
  <2>8. Def(g)
    BY <2>6, <2>7
  <2>. QED  BY <2>8
<1>2. Def(up)
  BY <1>1
<1>3. \A x : Conditions!Above(parent, x) = up[x] \ {x}
  BY DEF Conditions!Above
<1>. HIDE DEF up
<1>4. up[0] = {} /\ \A x \in Conditions!Nodes : up[x] = {x} \cup up[parent[x]]
  <2>1. 0 \in 0..ConditionNodes /\ \A x \in Conditions!Nodes : x \in 0..ConditionNodes /\ x # 0
    BY NodeBounds
  <2>. QED  BY <1>2, <2>1
<1>. HIDE DEF Def
<1>. DEFINE T == {x \in Conditions!Nodes : up[x] \subseteq 1..x}
<1>5. \A x \in Conditions!Nodes : x \in T
  <2>. SUFFICES ASSUME NEW x \in Conditions!Nodes, \A y \in Conditions!Nodes : y < x => y \in T PROVE x \in T
    <3>. HIDE DEF T
    <3>. QED  BY FromTheRoot
  <2>1. x \in Nat /\ x >= 1 /\ parent[x] \in 0..(x - 1)
    BY NodeBounds DEF Shape
  <2>2. up[parent[x]] \subseteq 1..(x - 1)
    <3>1. CASE parent[x] = 0
      BY <1>4, <3>1
    <3>2. CASE parent[x] # 0
      <4>1. parent[x] \in Conditions!Nodes /\ parent[x] < x /\ parent[x] \in Nat
        BY <2>1, <3>2, NodeBounds
      <4>2. up[parent[x]] \subseteq 1..parent[x]
        BY <4>1
      <4>. QED  BY <2>1, <4>1, <4>2
    <3>. QED  BY <3>1, <3>2
  <2>3. up[x] = {x} \cup up[parent[x]]
    BY <1>4
  <2>4. up[x] \subseteq 1..x
    BY <2>1, <2>2, <2>3
  <2>. QED  BY <2>4
<1>6. \A x \in Conditions!Nodes : x \in up[x] /\ Path(x) = up[x]
  BY <1>3, <1>4 DEF Path
<1>7. ASSUME NEW x \in Conditions!Nodes
      PROVE  Conditions!Above(parent, x) = IF parent[x] = 0 THEN {} ELSE Path(parent[x])
  <2>1. x \in Nat /\ parent[x] \in 0..(x - 1)
    BY NodeBounds DEF Shape
  <2>2. CASE parent[x] = 0
    BY <1>3, <1>4, <2>2
  <2>3. CASE parent[x] # 0
    <3>1. parent[x] \in Conditions!Nodes /\ parent[x] \in Nat /\ parent[x] < x
      BY <2>1, <2>3, NodeBounds
    <3>2. up[parent[x]] \subseteq 1..parent[x] /\ Path(parent[x]) = up[parent[x]]
      BY <1>5, <1>6, <3>1
    <3>3. x \notin up[parent[x]]
      BY <2>1, <3>1, <3>2
    <3>4. up[x] \ {x} = up[parent[x]]
      BY <1>4, <3>3
    <3>. QED  BY <1>3, <2>3, <3>2, <3>4
  <2>. QED  BY <2>2, <2>3
<1>8. \A x \in Conditions!Nodes : up[x] \subseteq 1..x
  BY <1>5
<1>. QED  BY <1>3, <1>6, <1>7, <1>8

(* A path is a chain: what it has up to one of its nodes is that node's.    *)
LEMMA PathsAreChains ==
    ASSUME Shape, NEW x \in Conditions!Nodes
    PROVE  \A z \in Path(x) :
              /\ z \in Conditions!Nodes /\ z <= x /\ z \in Nat
              /\ Path(z) \subseteq Path(x)
              /\ \A w \in Path(x) : w <= z => w \in Path(z)
              /\ z # x => \E c \in Path(x) : parent[c] = z
<1>. DEFINE Ok(t) ==
              \A z \in Path(t) :
                 /\ Path(z) \subseteq Path(t)
                 /\ \A w \in Path(t) : w <= z => w \in Path(z)
                 /\ z # t => \E c \in Path(t) : parent[c] = z
            T == {t \in Conditions!Nodes : Ok(t)}
<1>1. ASSUME NEW t \in Conditions!Nodes, \A y \in Conditions!Nodes : y < t => y \in T PROVE Ok(t)
  <2>1. /\ t \in Nat /\ t >= 1 /\ parent[t] \in 0..(t - 1)
        /\ t \in Path(t) /\ Path(t) \subseteq 1..t
    BY PathsAre, NodeBounds DEF Shape
  <2>2. CASE parent[t] = 0
    <3>1. Path(t) = {t}
      BY <2>2, PathsAre DEF Path
    <3>. QED  BY <3>1
  <2>3. CASE parent[t] # 0
    <3>. DEFINE q == parent[t]
    <3>1. q \in Conditions!Nodes /\ q \in Nat /\ q < t
      BY <2>1, <2>3, NodeBounds
    <3>2. Ok(q) /\ q \in Path(q) /\ Path(q) \subseteq 1..q
      BY <1>1, <3>1, PathsAre
    <3>3. Path(t) = {t} \cup Path(q)
      BY <2>3, PathsAre DEF Path
    <3>. HIDE DEF q, Ok
    <3>4. ASSUME NEW z \in Path(t)
          PROVE  /\ Path(z) \subseteq Path(t)
                 /\ \A w \in Path(t) : w <= z => w \in Path(z)
                 /\ z # t => \E c \in Path(t) : parent[c] = z
      <4>1. CASE z = t
        BY <4>1
      <4>2. CASE z # t
        <5>1. z \in Path(q)
          BY <3>3, <4>2
        <5>2. /\ Path(z) \subseteq Path(q)
              /\ \A w \in Path(q) : w <= z => w \in Path(z)
              /\ z # q => \E c \in Path(q) : parent[c] = z
          BY <3>2, <5>1 DEF Ok
        <5>3. ASSUME NEW w \in Path(t), w <= z PROVE w \in Path(z)
          <6>1. z \in Nat /\ z <= q /\ w # t
            BY <3>1, <3>2, <5>1, <5>3, <2>1
          <6>. QED  BY <3>3, <5>2, <5>3, <6>1
        <5>4. \E c \in Path(t) : parent[c] = z
          <6>1. CASE z = q
            BY <2>1, <6>1 DEF q
          <6>2. CASE z # q
            BY <3>3, <5>2, <6>2
          <6>. QED  BY <6>1, <6>2
        <5>. QED  BY <3>3, <5>2, <5>3, <5>4
      <4>. QED  BY <4>1, <4>2
    <3>. QED  BY <3>4 DEF Ok
  <2>. QED  BY <2>2, <2>3
<1>2. \A t \in Conditions!Nodes : t \in T
  <2>1. \A t \in Conditions!Nodes : (\A y \in Conditions!Nodes : y < t => y \in T) => t \in T
    BY <1>1
  <2>. HIDE DEF T
  <2>. QED  BY <2>1, FromTheRoot
<1>3. Ok(x)
  BY <1>2
<1>4. \A z \in Path(x) : z \in Conditions!Nodes /\ z <= x /\ z \in Nat
  <2>1. Path(x) \subseteq 1..x /\ x \in Nat /\ x <= ConditionNodes /\ ConditionNodes \in Nat
    BY PathsAre, NodeBounds
  <2>. QED  BY <2>1 DEF Conditions!Nodes
<1>. QED  BY <1>3, <1>4

LEMMA ChildrenApart ==
    ASSUME Shape, NEW x \in Conditions!Nodes, NEW a \in Path(x), NEW b \in Path(x),
           parent[a] = parent[b], parent[a] # 0
    PROVE  a = b
<1>1. /\ a \in Conditions!Nodes /\ b \in Conditions!Nodes /\ a \in Nat /\ b \in Nat
      /\ \A w \in Path(x) : (w <= a => w \in Path(a)) /\ (w <= b => w \in Path(b))
  BY PathsAreChains
<1>. DEFINE q == parent[a]
<1>2. q \in Nat /\ q < a /\ q < b /\ q \in Conditions!Nodes
  <2>1. parent[a] \in 0..(a - 1) /\ parent[b] \in 0..(b - 1)
    BY <1>1 DEF Shape
  <2>2. a <= ConditionNodes /\ ConditionNodes \in Nat
    BY <1>1, NodeBounds
  <2>. QED  BY <1>1, <2>1, <2>2, NodeBounds
<1>3. Path(a) = {a} \cup Path(q) /\ Path(b) = {b} \cup Path(q) /\ Path(q) \subseteq 1..q
  BY <1>1, <1>2, PathsAre DEF Path
<1>. HIDE DEF q
<1>4. CASE a <= b
  <2>1. a \in Path(b) /\ a \notin Path(q)
    BY <1>1, <1>2, <1>3, <1>4
  <2>. QED  BY <1>3, <2>1
<1>5. CASE b <= a
  <2>1. b \in Path(a) /\ b \notin Path(q)
    BY <1>1, <1>2, <1>3, <1>5
  <2>. QED  BY <1>3, <2>1
<1>. QED  BY <1>1, <1>4, <1>5

-----------------------------------------------------------------------------
(* Sums over the nodes of a set.                                            *)

OneOf(S) == CHOOSE x \in S : TRUE
AddOne(f, it, S) == IF S = {} THEN 0 ELSE f[OneOf(S)] + it[S \ {OneOf(S)}]
SumOver(f, S) == (CHOOSE it : it = [T \in SUBSET S |-> AddOne(f, it, T)])[S]

LEMMA SomeNodes ==
    ASSUME NEW S \in SUBSET Conditions!Nodes
    PROVE  IsFiniteSet(S) /\ Cardinality(S) \in Nat
<1>1. IsFiniteSet(1..ConditionNodes)
  BY ConditionsAssumption, FS_Interval
<1>2. IsFiniteSet(S)
  BY <1>1, FS_Subset DEF Conditions!Nodes
<1>. QED  BY <1>2, FS_CardinalityType

(* How many there are in sets that have nothing in common.                  *)
LEMMA SumCounts ==
    ASSUME NEW S \in SUBSET Conditions!Nodes, NEW f, NEW L,
           \A x \in S : L[x] \in SUBSET Conditions!Nodes /\ f[x] = Cardinality(L[x]),
           \A x, y \in S : x # y => L[x] \cap L[y] = {}
    PROVE  SumOver(f, S) = Cardinality(UNION {L[x] : x \in S})
<1>. DEFINE All(T) == UNION {L[x] : x \in T}
            totals == [T \in SUBSET S |-> Cardinality(All(T))]
            Def(it) == it = [T \in SUBSET S |-> AddOne(f, it, T)]
            sum == CHOOSE it : Def(it)
<1>1. ASSUME NEW T \in SUBSET S, T # {}
      PROVE  /\ OneOf(T) \in T /\ T \ {OneOf(T)} \in SUBSET S
             /\ Cardinality(All(T)) = f[OneOf(T)] + Cardinality(All(T \ {OneOf(T)}))
  <2>1. OneOf(T) \in T
    BY <1>1 DEF OneOf
  <2>. DEFINE x == OneOf(T)
              A == L[x]
              B == All(T \ {x})
  <2>2. A \in SUBSET Conditions!Nodes /\ f[x] = Cardinality(A) /\ B \in SUBSET Conditions!Nodes
    BY <2>1
  <2>3. A \cap B = {}
    BY <2>1
  <2>4. All(T) = A \cup B
    BY <2>1
  <2>. HIDE DEF A, B, All
  <2>5. /\ IsFiniteSet(A) /\ IsFiniteSet(B) /\ IsFiniteSet(A \cap B)
        /\ Cardinality(A) \in Nat /\ Cardinality(B) \in Nat
    BY <2>2, <2>3, SomeNodes, FS_EmptySet
  <2>6. Cardinality(A \cup B) = Cardinality(A) + Cardinality(B) - Cardinality(A \cap B)
    BY <2>5, FS_Union
  <2>7. Cardinality(A \cap B) = 0
    BY <2>3, FS_EmptySet
  <2>8. Cardinality(All(T)) = Cardinality(A) + Cardinality(B)
    BY <2>4, <2>5, <2>6, <2>7
  <2>. QED  BY <2>1, <2>2, <2>8 DEF B
<1>2. Cardinality(All({})) = 0
  <2>1. All({}) = {}
    OBVIOUS
  <2>. HIDE DEF All
  <2>. QED  BY <2>1, FS_EmptySet
<1>. HIDE DEF All
<1>3. Def(totals)
  <2>1. ASSUME NEW T \in SUBSET S PROVE Cardinality(All(T)) = AddOne(f, totals, T)
    <3>1. CASE T = {}
      BY <1>2, <3>1 DEF AddOne
    <3>2. CASE T # {}
      <4>1. totals[T \ {OneOf(T)}] = Cardinality(All(T \ {OneOf(T)}))
        BY <1>1, <3>2
      <4>. HIDE DEF totals
      <4>. QED  BY <1>1, <3>2, <4>1 DEF AddOne
    <3>. QED  BY <3>1, <3>2
  <2>2. totals = [T \in SUBSET S |-> AddOne(f, totals, T)]
    BY <2>1
  <2>. QED  BY <2>2
<1>4. Def(sum)
  <2>. HIDE DEF Def, totals
  <2>. QED  BY <1>3
<1>5. SumOver(f, S) = sum[S]
  BY DEF SumOver
<1>. HIDE DEF sum
<1>6. \A T \in SUBSET S : sum[T] = AddOne(f, sum, T)
  BY <1>4
<1>. DEFINE Known == {k \in Nat : \A T \in SUBSET S : Cardinality(T) <= k => sum[T] = Cardinality(All(T))}
<1>7. \A T \in SUBSET S : Cardinality(T) \in Nat /\ IsFiniteSet(T)
  BY SomeNodes
<1>8. 0 \in Known
  <2>. SUFFICES ASSUME NEW T \in SUBSET S, Cardinality(T) <= 0 PROVE sum[T] = Cardinality(All(T))
    OBVIOUS
  <2>1. Cardinality(T) = 0
    BY <1>7
  <2>2. T = {}
    BY <1>7, <2>1, FS_EmptySet
  <2>. QED  BY <1>2, <1>6, <2>2 DEF AddOne
<1>9. ASSUME NEW k \in 0..(Cardinality(S) - 1), k \in Known PROVE k + 1 \in Known
  <2>. SUFFICES ASSUME NEW T \in SUBSET S, Cardinality(T) <= k + 1
                PROVE  sum[T] = Cardinality(All(T))
    BY <1>7
  <2>1. CASE T = {}
    BY <1>2, <1>6, <2>1 DEF AddOne
  <2>2. CASE T # {}
    <3>. DEFINE R == T \ {OneOf(T)}
    <3>1. R \in SUBSET S /\ OneOf(T) \in T
      BY <1>1, <2>2
    <3>2. Cardinality(R) = Cardinality(T) - 1
      BY <1>7, <3>1, FS_RemoveElement
    <3>3. Cardinality(R) <= k
      BY <1>7, <3>2
    <3>4. sum[R] = Cardinality(All(R))
      BY <1>9, <3>1, <3>3
    <3>5. sum[T] = f[OneOf(T)] + sum[R]
      BY <1>6, <2>2 DEF AddOne
    <3>. QED  BY <1>1, <2>2, <3>4, <3>5
  <2>. QED  BY <2>1, <2>2
<1>10. Cardinality(S) \in Nat /\ Cardinality(S) \in 0..Cardinality(S)
  BY SomeNodes
<1>. HIDE DEF Known
<1>11. Cardinality(S) \in Known
  BY <1>8, <1>9, <1>10, CountingUp
<1>12. sum[S] = Cardinality(All(S))
  BY <1>10, <1>11 DEF Known
<1>. QED  BY <1>5, <1>12 DEF All

-----------------------------------------------------------------------------
(* What unary_conditions() counts below a node: the operands whose test the *)
(* node is part of.                                                         *)

Counts(y) == Conditions!Kind(y) \notin Conditions!Connectives \cup {"compare"}
Leaves(x) == {y \in Conditions!Nodes : Counts(y) /\ x \in Conditions!Test(y)}

LEMMA InTest ==
    ASSUME Shape, NEW y \in Conditions!Nodes
    PROVE  \A x : x \in Conditions!Test(y) <=>
                    /\ x \in Path(y)
                    /\ \A z \in Path(y) : z # y /\ z >= x => Conditions!Kind(z) \in Conditions!Connectives
<1>1. Conditions!Above(parent, y) = Path(y) \ {y}
  BY PathsAre
<1>. QED  BY <1>1 DEF Conditions!Test, Path

LEMMA LeavesOfConnective ==
    ASSUME Shape, NEW x \in Conditions!Nodes, Conditions!Kind(x) \in Conditions!Connectives
    PROVE  /\ Leaves(x) = UNION {Leaves(z) : z \in Conditions!Below(x)}
           /\ \A a, b \in Conditions!Below(x) : a # b => Leaves(a) \cap Leaves(b) = {}
<1>0. x \in Nat /\ x # 0 /\ x >= 1
  BY NodeBounds
<1>1. ASSUME NEW y \in Leaves(x) PROVE \E z \in Conditions!Below(x) : y \in Leaves(z)
  <2>1. /\ y \in Conditions!Nodes /\ Counts(y) /\ x \in Path(y) /\ y # x
        /\ \A w \in Path(y) : w # y /\ w >= x => Conditions!Kind(w) \in Conditions!Connectives
    BY InTest DEF Leaves, Counts
  <2>2. PICK z \in Path(y) : parent[z] = x
    BY <2>1, PathsAreChains
  <2>3. z \in Conditions!Nodes /\ z \in Nat /\ x < z
    <3>1. z \in Conditions!Nodes /\ z \in Nat
      BY <2>1, PathsAreChains
    <3>. QED  BY <2>2, <3>1 DEF Shape
  <2>4. \A w \in Path(y) : w # y /\ w >= z => Conditions!Kind(w) \in Conditions!Connectives
    <3>1. \A w \in Path(y) : w \in Nat
      BY <2>1, PathsAreChains
    <3>. QED  BY <1>0, <2>1, <2>3, <3>1
  <2>5. z \in Conditions!Test(y)
    BY <2>1, <2>4, InTest
  <2>. QED  BY <2>1, <2>2, <2>3, <2>5 DEF Leaves, Conditions!Below
<1>2. ASSUME NEW z \in Conditions!Below(x), NEW y \in Leaves(z)
      PROVE  y \in Leaves(x) /\ z \in Path(y) /\ parent[z] = x
  <2>1. /\ y \in Conditions!Nodes /\ Counts(y) /\ z \in Path(y) /\ parent[z] = x /\ z \in Conditions!Nodes
        /\ \A w \in Path(y) : w # y /\ w >= z => Conditions!Kind(w) \in Conditions!Connectives
    BY InTest DEF Leaves, Conditions!Below
  <2>2. /\ z \in Nat /\ Path(z) = {z} \cup Path(x) /\ Path(x) \subseteq 1..x /\ x \in Path(x)
        /\ Path(z) \subseteq Path(y) /\ \A w \in Path(y) : w \in Nat /\ (w <= z => w \in Path(z))
    BY <1>0, <2>1, PathsAre, PathsAreChains DEF Path
  <2>3. ASSUME NEW w \in Path(y), w # y, w >= x PROVE Conditions!Kind(w) \in Conditions!Connectives
    <3>1. CASE w >= z
      BY <2>1, <2>3, <3>1
    <3>2. CASE ~(w >= z)
      <4>1. w \in Path(z) /\ w # z /\ w \in Nat
        BY <2>2, <3>2
      <4>2. w \in 1..x
        BY <2>2, <4>1
      <4>3. w = x
        BY <1>0, <2>3, <4>2
      <4>. QED  BY <4>3
    <3>. QED  BY <3>1, <3>2
  <2>4. x \in Path(y)
    BY <2>2
  <2>5. x \in Conditions!Test(y)
    BY <2>1, <2>3, <2>4, InTest
  <2>. QED  BY <2>1, <2>5 DEF Leaves
<1>3. ASSUME NEW a \in Conditions!Below(x), NEW b \in Conditions!Below(x), NEW y \in Leaves(a) \cap Leaves(b) PROVE a = b
  <2>1. y \in Conditions!Nodes /\ a \in Path(y) /\ b \in Path(y) /\ parent[a] = x /\ parent[b] = x
    BY <1>2 DEF Leaves
  <2>. QED  BY <1>0, <2>1, ChildrenApart
<1>. QED  BY <1>1, <1>2, <1>3

LEMMA LeavesOfOther ==
    ASSUME Shape, NEW x \in Conditions!Nodes, Conditions!Kind(x) \notin Conditions!Connectives
    PROVE  Leaves(x) = IF Conditions!Kind(x) = "compare" THEN {} ELSE {x}
<1>0. x \in Nat
  BY NodeBounds
<1>1. ASSUME NEW y \in Leaves(x) PROVE y = x
  <2>1. /\ y \in Conditions!Nodes /\ x \in Path(y)
        /\ \A w \in Path(y) : w # y /\ w >= x => Conditions!Kind(w) \in Conditions!Connectives
    BY InTest DEF Leaves
  <2>. QED  BY <1>0, <2>1
<1>2. x \in Conditions!Test(x)
  <2>1. x \in Path(x) /\ Path(x) \subseteq 1..x
    BY PathsAre
  <2>. QED  BY <1>0, <2>1, InTest
<1>3. Leaves(x) \subseteq {x} /\ (x \in Leaves(x) <=> Counts(x))
  BY <1>1, <1>2 DEF Leaves
<1>. QED  BY <1>3 DEF Counts

LEMMA UnaryConditionsCount ==
    ASSUME Shape
    PROVE  \A x \in Conditions!Nodes : Conditions!UnaryConditions(x) = Cardinality(Leaves(x))
<1>. DEFINE Value(g, y) == IF Conditions!Kind(y) = "compare" THEN 0
                           ELSE IF Conditions!Kind(y) \in {"paren", "not", "minus", "and"}
                           THEN SumOver(g, Conditions!Below(y))
                           ELSE 1
            Def(g) == g = [y \in Conditions!Nodes |-> Value(g, y)]
            count == CHOOSE g : Def(g)
            leaves == [y \in Conditions!Nodes |-> Leaves(y)]
            closed == [y \in Conditions!Nodes |-> Cardinality(Leaves(y))]
<1>1. \A x : Conditions!UnaryConditions(x) = count[x]
  BY DEF Conditions!UnaryConditions, Conditions!MapThenSumSet, Conditions!MapThenFoldSet, SumOver, AddOne, OneOf
<1>2. ASSUME NEW g, NEW y \in Conditions!Nodes, \A z \in Conditions!Below(y) : g[z] = Cardinality(Leaves(z))
      PROVE  Value(g, y) = Cardinality(Leaves(y))
  <2>1. CASE Conditions!Kind(y) \in Conditions!Connectives
    <3>1. /\ Leaves(y) = UNION {Leaves(z) : z \in Conditions!Below(y)}
          /\ \A a, b \in Conditions!Below(y) : a # b => Leaves(a) \cap Leaves(b) = {}
      BY <2>1, LeavesOfConnective
    <3>2. Conditions!Below(y) \in SUBSET Conditions!Nodes /\ \A z \in Conditions!Below(y) : leaves[z] = Leaves(z) /\ Leaves(z) \in SUBSET Conditions!Nodes
      BY DEF Conditions!Below, Leaves
    <3>. HIDE DEF leaves
    <3>3. SumOver(g, Conditions!Below(y)) = Cardinality(UNION {leaves[z] : z \in Conditions!Below(y)})
      <4>. DEFINE S == Conditions!Below(y)
      <4>1. /\ S \in SUBSET Conditions!Nodes
            /\ \A z \in S : leaves[z] \in SUBSET Conditions!Nodes /\ g[z] = Cardinality(leaves[z])
        BY <1>2, <3>2
      <4>2. \A a, b \in S : a # b => leaves[a] \cap leaves[b] = {}
        BY <3>1, <3>2
      <4>. HIDE DEF S
      <4>3. SumOver(g, S) = Cardinality(UNION {leaves[z] : z \in S})
        BY <4>1, <4>2, SumCounts
      <4>. QED  BY <4>3 DEF S
    <3>4. {leaves[z] : z \in Conditions!Below(y)} = {Leaves(z) : z \in Conditions!Below(y)}
      BY <3>2
    <3>5. Value(g, y) = SumOver(g, Conditions!Below(y))
      BY <2>1 DEF Conditions!Connectives
    <3>. QED  BY <3>1, <3>3, <3>4, <3>5
  <2>2. CASE Conditions!Kind(y) \notin Conditions!Connectives
    <3>1. Leaves(y) = IF Conditions!Kind(y) = "compare" THEN {} ELSE {y}
      BY <2>2, LeavesOfOther
    <3>2. Value(g, y) = IF Conditions!Kind(y) = "compare" THEN 0 ELSE 1
      BY <2>2 DEF Conditions!Connectives
    <3>3. Cardinality({}) = 0 /\ Cardinality({y}) = 1
      BY FS_EmptySet, FS_Singleton
    <3>. HIDE DEF Value
    <3>. QED  BY <3>1, <3>2, <3>3
  <2>. QED  BY <2>1, <2>2
<1>3. Def(closed)
  <2>1. \A y \in Conditions!Nodes : \A z \in Conditions!Below(y) : closed[z] = Cardinality(Leaves(z))
    BY DEF Conditions!Below
  <2>2. \A y \in Conditions!Nodes : Value(closed, y) = Cardinality(Leaves(y))
    <3>. HIDE DEF Value, closed
    <3>. QED  BY <1>2, <2>1
  <2>. HIDE DEF Value
  <2>3. closed = [y \in Conditions!Nodes |-> Value(closed, y)]
    BY <2>2
  <2>. QED  BY <2>3
<1>4. Def(count)
  <2>. HIDE DEF Def, closed
  <2>. QED  BY <1>3
<1>. HIDE DEF count, Value
<1>5. \A y \in Conditions!Nodes : count[y] = Value(count, y)
  BY <1>4
<1>. DEFINE T == {y \in Conditions!Nodes : count[y] = Cardinality(Leaves(y))}
<1>6. \A y \in Conditions!Nodes : y \in T
  <2>. SUFFICES ASSUME NEW y \in Conditions!Nodes, \A z \in Conditions!Nodes : z > y => z \in T PROVE y \in T
    <3>. HIDE DEF T
    <3>. QED  BY FromTheLeaves
  <2>1. \A z \in Conditions!Below(y) : z \in Conditions!Nodes /\ z > y
    BY NodeBounds DEF Conditions!Below, Shape
  <2>2. \A z \in Conditions!Below(y) : count[z] = Cardinality(Leaves(z))
    BY <2>1
  <2>3. Value(count, y) = Cardinality(Leaves(y))
    BY <1>2, <2>2
  <2>. QED  BY <1>5, <2>3
<1>. QED  BY <1>1, <1>6

-----------------------------------------------------------------------------
(* Where an operand is counted from.                                        *)

(* A node whose operands are counted: the condition of an if or of a        *)
(* conditional expression, met with the node above it, or an operator that  *)
(* stands in no test.  The condition of a switch is a test of neither kind. *)
IsCondition(h) == Conditions!Condition(parent[h]) = h
IsCharged(h) == Conditions!Charged(parent[h]) = h
IsOuter(h) == Conditions!Logical(h) /\ ~Conditions!EnclosingBooleanTest(h)
Heads(m) == {h \in Conditions!Nodes \ {1} : (parent[h] <= m /\ IsCharged(h)) \/ (h <= m /\ IsOuter(h))}
Reached(m) == {y \in Conditions!Nodes \ {1} : Counts(y) /\ \E h \in Heads(m) : h \in Conditions!Test(y)}

LEMMA UnwrappedIs ==
    ASSUME Shape, NEW x \in Conditions!Nodes
    PROVE  LET u == Conditions!Unwrapped(x)
           IN  /\ u \in Path(x)
               /\ parent[u] # 0 => Conditions!Kind(parent[u]) # "paren"
               /\ \A z \in Path(x) : z # x /\ z >= u => Conditions!Kind(z) = "paren"
<1>. DEFINE Inside(y) == parent[y] # Conditions!NoNode /\ Conditions!Kind(parent[y]) = "paren"
            Def(g) == g = [y \in Conditions!Nodes |-> IF Inside(y) THEN g[parent[y]] ELSE y]
            out == CHOOSE g : Def(g)
<1>0. ConditionNodes \in Nat /\ Conditions!Nodes = 1..ConditionNodes /\ \A y \in 1..ConditionNodes : parent[y] \in 0..(y - 1)
  BY NodeBounds DEF Shape, Conditions!Nodes
<1>1. \E g : Def(g)
  <2>. DEFINE s == [e \in (1..ConditionNodes) \X Nat |-> IF Inside(e[1]) THEN e[2] ELSE e[1]]
  <2>1. s \in [(1..ConditionNodes) \X Nat -> Nat]
    <3>. HIDE DEF Inside
    <3>. QED  BY <1>0
  <2>2. \A y \in 1..ConditionNodes, k \in Nat : s[<<y, k>>] = IF Inside(y) THEN k ELSE y
    <3>. HIDE DEF Inside
    <3>. QED  OBVIOUS
  <2>. HIDE DEF s
  <2>3. Upward(ConditionNodes, parent)
    BY <1>0 DEF Upward
  <2>4. PICK g : Climbed(g, ConditionNodes, parent, Nat, 0, s)
    BY <2>1, <2>3, Climbs
  <2>5. /\ g \in [0..ConditionNodes -> Nat] /\ \A y \in 1..ConditionNodes : g[y] = s[<<y, g[parent[y]]>>]
    BY <2>4 DEF Climbed
  <2>. HIDE DEF Inside
  <2>6. ASSUME NEW y \in 1..ConditionNodes PROVE g[y] = IF Inside(y) THEN g[parent[y]] ELSE y
    <3>1. parent[y] \in 0..ConditionNodes
      BY <1>0
    <3>2. g[parent[y]] \in Nat
      BY <2>5, <3>1
    <3>. QED  BY <2>2, <2>5, <3>2
  <2>. DEFINE h == [y \in Conditions!Nodes |-> g[y]]
  <2>7. ASSUME NEW y \in Conditions!Nodes PROVE h[y] = IF Inside(y) THEN h[parent[y]] ELSE y
    <3>1. Inside(y) => parent[y] \in Conditions!Nodes
      BY <1>0 DEF Inside, Conditions!NoNode
    <3>2. h[y] = g[y] /\ (Inside(y) => h[parent[y]] = g[parent[y]])
      BY <3>1
    <3>. HIDE DEF h
    <3>. QED  BY <1>0, <2>6, <3>2
  <2>8. h = [y \in Conditions!Nodes |-> h[y]]
    OBVIOUS
  <2>. HIDE DEF h
  <2>9. Def(h)
    BY <2>7, <2>8
  <2>. QED  BY <2>9
<1>2. Def(out)
  <2>. HIDE DEF Def
  <2>. QED  BY <1>1
<1>3. \A y : Conditions!Unwrapped(y) = out[y]
  BY DEF Conditions!Unwrapped
<1>. HIDE DEF out, Inside
<1>4. \A y \in Conditions!Nodes : out[y] = IF Inside(y) THEN out[parent[y]] ELSE y
  BY <1>2
<1>. HIDE DEF Def
<1>. DEFINE Ok(y) == /\ out[y] \in Path(y)
                     /\ ~Inside(out[y])
                     /\ \A z \in Path(y) : z # y /\ z >= out[y] => Conditions!Kind(z) = "paren"
            T == {y \in Conditions!Nodes : Ok(y)}
<1>5. \A y \in Conditions!Nodes : y \in T
  <2>. SUFFICES ASSUME NEW y \in Conditions!Nodes, \A z \in Conditions!Nodes : z < y => z \in T PROVE Ok(y)
    <3>. HIDE DEF Ok
    <3>. QED  BY FromTheRoot
  <2>1. y \in Nat /\ parent[y] \in 0..(y - 1) /\ y \in Path(y) /\ Path(y) \subseteq 1..y
    BY PathsAre, NodeBounds DEF Shape
  <2>2. CASE ~Inside(y)
    <3>1. out[y] = y
      BY <1>4, <2>2
    <3>. QED  BY <2>1, <2>2, <3>1
  <2>3. CASE Inside(y)
    <3>. DEFINE q == parent[y]
    <3>1. q # 0 /\ Conditions!Kind(q) = "paren" /\ q \in Conditions!Nodes /\ q \in Nat /\ q < y
      BY <2>1, <2>3, NodeBounds DEF Inside, Conditions!NoNode
    <3>2. Ok(q)
      BY <3>1
    <3>3. out[y] = out[q]
      BY <1>4, <2>3
    <3>4. Path(y) = {y} \cup Path(q) /\ Path(q) \subseteq 1..q
      BY <3>1, PathsAre DEF Path
    <3>5. ASSUME NEW z \in Path(y), z # y, z >= out[y] PROVE Conditions!Kind(z) = "paren"
      <4>1. z \in Path(q)
        BY <3>4, <3>5
      <4>. QED  BY <3>1, <3>2, <3>3, <3>5, <4>1
    <3>. QED  BY <3>2, <3>3, <3>4, <3>5
  <2>. QED  BY <2>2, <2>3
<1>6. Ok(x)
  BY <1>5
<1>. QED  BY <1>3, <1>6 DEF Inside, Conditions!NoNode

(* Nodes of a test, and what is above it.                                   *)
LEMMA TestGoesDown ==
    ASSUME Shape, NEW y \in Conditions!Nodes, NEW t \in Conditions!Test(y)
    PROVE  /\ t \in Conditions!Nodes /\ t \in Nat /\ t \in Path(y) /\ t <= y
           /\ Path(t) \subseteq Path(y)
           /\ \A w \in Path(y) : w \in Nat /\ (w <= t => w \in Path(t))
<1>1. t \in Path(y)
  BY InTest
<1>. QED  BY <1>1, PathsAreChains

(* A test ends below a node that is no connective.                          *)
LEMMA TestEnds ==
    ASSUME Shape, NEW y \in Conditions!Nodes, NEW t \in Conditions!Test(y), parent[t] # 0, Conditions!Kind(parent[t]) \notin Conditions!Connectives
    PROVE  \A s \in Conditions!Test(y) : t <= s
<1>. SUFFICES ASSUME NEW s \in Conditions!Test(y), ~(t <= s) PROVE FALSE
  OBVIOUS
<1>. DEFINE q == parent[t]
<1>1. /\ t \in Conditions!Nodes /\ t \in Nat /\ s \in Conditions!Nodes /\ s \in Nat /\ s < t
      /\ s \in Path(t) /\ Path(t) \subseteq Path(y) /\ t <= y /\ y \in Nat
  BY TestGoesDown, NodeBounds
<1>2. q \in Nat /\ q < t /\ q \in Conditions!Nodes
  <2>1. parent[t] \in 0..(t - 1) /\ t <= ConditionNodes /\ ConditionNodes \in Nat
    BY <1>1, NodeBounds DEF Shape
  <2>. QED  BY <1>1, <2>1, NodeBounds
<1>3. Path(t) = {t} \cup Path(q) /\ Path(q) \subseteq 1..q /\ q \in Path(q)
  BY <1>1, <1>2, PathsAre DEF Path
<1>4. s \in Path(q) /\ s <= q /\ q \in Path(y) /\ q # y
  BY <1>1, <1>2, <1>3
<1>5. Conditions!Kind(q) \in Conditions!Connectives
  BY <1>4, <1>2, <1>1, InTest
<1>. QED  BY <1>5

LEMMA ConditionIsOutermost ==
    ASSUME Shape, NEW y \in Conditions!Nodes, NEW t \in Conditions!Test(y), t # 1, IsCondition(t)
    PROVE  \A s \in Conditions!Test(y) : t <= s
<1>1. t \in Conditions!Nodes /\ t \in Nat /\ t # 0 /\ parent[t] # 0
  BY TestGoesDown, NodeBounds DEF Shape
<1>2. Conditions!Kind(parent[t]) \in {"if", "switch", "choose"}
  BY <1>1 DEF IsCondition, Conditions!Condition, Conditions!NoNode
<1>3. Conditions!Kind(parent[t]) \notin Conditions!Connectives
  BY <1>2 DEF Conditions!Connectives
<1>. QED  BY <1>1, <1>3, TestEnds

(* The parentheses around a node of a test are part of it.                  *)
LEMMA UnwrappedInTest ==
    ASSUME Shape, NEW y \in Conditions!Nodes, NEW t \in Conditions!Test(y), t # 1
    PROVE  /\ Conditions!Unwrapped(t) \in Conditions!Test(y) /\ Conditions!Unwrapped(t) \in Conditions!Nodes /\ Conditions!Unwrapped(t) <= t
           /\ Conditions!Unwrapped(t) # 1 /\ parent[Conditions!Unwrapped(t)] # 0
           /\ Conditions!Kind(parent[Conditions!Unwrapped(t)]) \in Conditions!Connectives => parent[Conditions!Unwrapped(t)] \in Conditions!Test(y)
<1>. DEFINE u == Conditions!Unwrapped(t)
            q == parent[u]
<1>1. /\ t \in Conditions!Nodes /\ t \in Nat /\ t >= 1 /\ t \in Path(y) /\ Path(t) \subseteq Path(y)
      /\ \A w \in Path(y) : w \in Nat /\ (w <= t => w \in Path(t))
      /\ \A w \in Path(y) : w # y /\ w >= t => Conditions!Kind(w) \in Conditions!Connectives
  BY TestGoesDown, InTest, NodeBounds
<1>2. /\ u \in Path(t)
      /\ \A z \in Path(t) : z # t /\ z >= u => Conditions!Kind(z) = "paren"
  BY <1>1, UnwrappedIs
<1>3. /\ u \in Conditions!Nodes /\ u \in Nat /\ u <= t /\ u >= 1 /\ u \in Path(y)
      /\ Path(u) \subseteq Path(t) /\ \A w \in Path(t) : w <= u => w \in Path(u)
  <2>. HIDE DEF u, q
  <2>1. t \in Conditions!Nodes /\ u \in Path(t) /\ Path(t) \subseteq Path(y)
    BY <1>1, <1>2
  <2>2. u \in Conditions!Nodes /\ u <= t /\ u \in Nat /\ Path(u) \subseteq Path(t)
    BY <2>1, PathsAreChains
  <2>3. \A w \in Path(t) : w <= u => w \in Path(u)
    BY <2>1, PathsAreChains
  <2>4. u >= 1
    BY <2>2, NodeBounds
  <2>. QED  BY <2>1, <2>2, <2>3, <2>4
<1>. HIDE DEF u
<1>4. ASSUME NEW w \in Path(y), w # y, w >= u PROVE Conditions!Kind(w) \in Conditions!Connectives
  <2>1. CASE w >= t
    BY <1>1, <1>4, <2>1
  <2>2. CASE ~(w >= t)
    <3>1. w \in Path(t) /\ w # t
      BY <1>1, <2>2
    <3>2. Conditions!Kind(w) = "paren"
      BY <1>2, <1>4, <3>1
    <3>. QED  BY <3>2 DEF Conditions!Connectives
  <2>. QED  BY <2>1, <2>2
<1>5. u \in Conditions!Test(y)
  BY <1>3, <1>4, InTest
<1>6. u # 1
  <2>. SUFFICES ASSUME u = 1 PROVE FALSE
    OBVIOUS
  <2>1. Conditions!Kind(1) = "paren"
    BY <1>1, <1>2, <1>3
  <2>. QED  BY <1>3, <2>1 DEF Shape
<1>7. q # 0 /\ q \in Nat /\ q < u /\ q \in Conditions!Nodes
  <2>1. q \in 0..(u - 1) /\ q # 0 /\ u <= ConditionNodes /\ ConditionNodes \in Nat
    BY <1>3, <1>6, NodeBounds DEF Shape
  <2>. QED  BY <1>3, <2>1, NodeBounds
<1>8. ASSUME Conditions!Kind(q) \in Conditions!Connectives PROVE q \in Conditions!Test(y)
  <2>1. Path(u) = {u} \cup Path(q) /\ Path(q) \subseteq 1..q /\ q \in Path(q)
    BY <1>3, <1>7, PathsAre DEF Path
  <2>2. ASSUME NEW w \in Path(y), w # y, w >= q PROVE Conditions!Kind(w) \in Conditions!Connectives
    <3>1. CASE w >= u
      BY <1>4, <2>2, <3>1
    <3>2. CASE ~(w >= u)
      <4>1. w \in Nat /\ w <= t
        BY <1>1, <1>3, <3>2
      <4>2. w \in Path(u) /\ w # u
        BY <1>1, <1>3, <3>2, <4>1
      <4>3. w = q
        BY <1>7, <2>1, <2>2, <4>1, <4>2
      <4>. QED  BY <1>8, <4>3
    <3>. QED  BY <3>1, <3>2
  <2>3. q \in Path(y)
    BY <1>1, <1>3, <2>1
  <2>. QED  BY <2>2, <2>3, InTest
<1>. QED  BY <1>3, <1>5, <1>6, <1>7, <1>8 DEF u

(* What compute() has a statement count is its condition.                   *)
LEMMA ChargedIsCondition ==
    ASSUME Shape, NEW h \in Conditions!Nodes \ {1}, IsCharged(h)
    PROVE  IsCondition(h) /\ Conditions!Kind(parent[h]) # "switch"
<1>1. h # Conditions!NoNode
  BY NodeBounds DEF Conditions!NoNode
<1>. QED  BY <1>1 DEF IsCharged, IsCondition, Conditions!Charged

(* An operator that stands in no test is the outermost one of its own.      *)
LEMMA OuterIsOutermost ==
    ASSUME Shape, Conditions!Ordinary, NEW y \in Conditions!Nodes,
           NEW h \in Conditions!Test(y), h # 1, IsOuter(h)
    PROVE  \A s \in Conditions!Test(y) :
              /\ ~IsCondition(s)
              /\ Conditions!Logical(s) => h <= s
<1>. DEFINE u == Conditions!Unwrapped(h)
            q == parent[u]
<1>0. h \in Conditions!Nodes /\ h # 1 /\ h \in Nat
  BY TestGoesDown
<1>1. /\ h \in Conditions!Nodes /\ h # 1 /\ h \in Nat
      /\ u \in Conditions!Test(y) /\ u \in Conditions!Nodes /\ u # 1 /\ u <= h /\ q # 0
  BY <1>0, UnwrappedInTest
<1>2. ~Conditions!Logical(q) /\ ~IsCondition(u) /\ Conditions!Kind(q) # "paren" /\ Conditions!Kind(q) # "minus"
  <2>1. ~Conditions!EnclosingBooleanTest(h) /\ Conditions!Logical(h)
    BY DEF IsOuter
  <2>2. ~Conditions!Logical(q) /\ Conditions!Condition(q) # u
    BY <2>1 DEF Conditions!EnclosingBooleanTest
  <2>3. Conditions!Kind(q) # "minus"
    BY <1>1, <2>1 DEF Conditions!Ordinary
  <2>4. Conditions!Kind(q) # "paren"
    BY <1>1, UnwrappedIs
  <2>. QED  BY <2>2, <2>3, <2>4 DEF IsCondition
<1>3. Conditions!Kind(q) \notin Conditions!Connectives
  BY <1>2 DEF Conditions!Logical, Conditions!Connectives
<1>. HIDE DEF u
<1>4. \A s \in Conditions!Test(y) : u <= s
  BY <1>1, <1>3, TestEnds
<1>5. ASSUME NEW s \in Conditions!Test(y), IsCondition(s) PROVE FALSE
  <2>1. s # 1
    <3>1. u \in Nat /\ u >= 1
      BY <1>1, NodeBounds
    <3>. QED  BY <1>1, <1>4, <3>1
  <2>2. s <= u /\ u <= s /\ s \in Nat /\ u \in Nat
    BY <1>1, <1>4, <1>5, <2>1, ConditionIsOutermost, TestGoesDown
  <2>3. s = u
    BY <2>2
  <2>. QED  BY <1>2, <1>5, <2>3
<1>6. ASSUME NEW s \in Conditions!Test(y), Conditions!Logical(s), ~(h <= s) PROVE FALSE
  <2>1. s \in Nat /\ s \in Path(h) /\ s # h /\ s >= u
    <3>1. s \in Nat /\ s <= h /\ s \in Path(y)
      BY <1>1, <1>6, TestGoesDown
    <3>2. s \in Path(h)
      BY <3>1, TestGoesDown
    <3>. QED  BY <1>1, <1>4, <1>6, <3>1, <3>2
  <2>2. Conditions!Kind(s) = "paren"
    BY <1>1, <2>1, UnwrappedIs DEF u
  <2>. QED  BY <1>6, <2>2 DEF Conditions!Logical
<1>. QED  BY <1>5, <1>6

(* No operand is counted from two nodes.                                    *)
LEMMA OneHead ==
    ASSUME Shape, Conditions!Ordinary, NEW y \in Conditions!Nodes,
           NEW a \in Heads(ConditionNodes), NEW b \in Heads(ConditionNodes), a \in Conditions!Test(y), b \in Conditions!Test(y)
    PROVE  a = b
<1>1. ASSUME NEW h \in Heads(ConditionNodes), h \in Conditions!Test(y)
      PROVE  /\ h \in Conditions!Nodes \ {1} /\ h \in Nat /\ (IsCondition(h) \/ IsOuter(h))
             /\ IsCondition(h) => \A s \in Conditions!Test(y) : h <= s
  <2>1. h \in Conditions!Nodes \ {1} /\ (IsCondition(h) \/ IsOuter(h))
    BY ChargedIsCondition DEF Heads
  <2>. QED  BY <1>1, <2>1, ConditionIsOutermost, NodeBounds
<1>2. ASSUME NEW h \in Heads(ConditionNodes), h \in Conditions!Test(y), IsOuter(h)
      PROVE  \A s \in Conditions!Test(y) : ~IsCondition(s) /\ (Conditions!Logical(s) => h <= s)
  BY <1>1, <1>2, OuterIsOutermost
<1>3. CASE IsCondition(a)
  <2>1. ~IsOuter(b)
    BY <1>2, <1>3
  <2>2. a <= b /\ b <= a /\ a \in Nat /\ b \in Nat
    BY <1>1, <1>3, <2>1
  <2>. QED  BY <2>2
<1>4. CASE IsOuter(a)
  <2>1. IsOuter(b)
    BY <1>1, <1>2, <1>4
  <2>2. a <= b /\ b <= a /\ a \in Nat /\ b \in Nat
    BY <1>1, <1>2, <1>4, <2>1 DEF IsOuter
  <2>. QED  BY <2>2
<1>. QED  BY <1>1, <1>3, <1>4

(* When all nodes have been met, it is the operands of tests that were      *)
(* counted.                                                                 *)
LEMMA AllReached ==
    ASSUME Shape, Conditions!Ordinary
    PROVE  Reached(ConditionNodes) = {y \in Conditions!Nodes \ {1} : Conditions!Operand(y)}
<1>. SUFFICES ASSUME NEW y \in Conditions!Nodes, y # 1, Counts(y)
              PROVE  (\E h \in Heads(ConditionNodes) : h \in Conditions!Test(y)) <=> Conditions!Tested(y)
  BY DEF Reached, Conditions!Operand, Counts
<1>. DEFINE o == Conditions!Min(Conditions!Test(y))
<1>0. y \in Nat /\ y >= 1 /\ y \in Conditions!Test(y)
  <2>1. y \in Path(y) /\ Path(y) \subseteq 1..y /\ y \in Nat /\ y >= 1
    BY PathsAre, NodeBounds
  <2>. QED  BY <2>1, InTest
<1>1. /\ o \in Conditions!Test(y) /\ \A s \in Conditions!Test(y) : o <= s
  <2>1. Conditions!Test(y) \in SUBSET Nat
    BY TestGoesDown
  <2>2. \E m \in Conditions!Test(y) : \A s \in Conditions!Test(y) : m <= s
    BY <1>0, <2>1, LeastExists
  <2>3. o = CHOOSE m \in Conditions!Test(y) : \A s \in Conditions!Test(y) : m <= s
    BY DEF Conditions!Min
  <2>. HIDE DEF o
  <2>. QED  BY <2>2, <2>3
<1>. HIDE DEF o
<1>2. Conditions!Tested(y) <=>
        IsCharged(o) \/ (~IsCondition(o) /\ \E t \in Conditions!Test(y) : Conditions!Logical(t))
  BY DEF Conditions!Tested, IsCharged, IsCondition, o
<1>3. \A t \in Conditions!Test(y) : t \in Conditions!Nodes /\ t \in Nat /\ t # 1 /\ parent[t] \in Nat /\ parent[t] <= ConditionNodes
  <2>. SUFFICES ASSUME NEW t \in Conditions!Test(y)
                PROVE  t \in Conditions!Nodes /\ t \in Nat /\ t # 1 /\ parent[t] \in Nat /\ parent[t] <= ConditionNodes
    OBVIOUS
  <2>1. t \in Conditions!Nodes /\ t \in Nat /\ t \in Path(y) /\ t <= ConditionNodes /\ ConditionNodes \in Nat
    BY TestGoesDown, NodeBounds
  <2>2. t # 1
    <3>. SUFFICES ASSUME t = 1 PROVE FALSE
      OBVIOUS
    <3>1. Conditions!Kind(1) \in Conditions!Connectives
      BY <2>1, InTest
    <3>. QED  BY <2>1, <3>1 DEF Shape, Conditions!Connectives
  <2>. QED  BY <2>1, <2>2 DEF Shape
<1>4. ASSUME NEW h \in Heads(ConditionNodes), h \in Conditions!Test(y) PROVE Conditions!Tested(y)
  <2>1. CASE IsCharged(h)
    <3>1. h <= o /\ o <= h /\ h \in Nat /\ o \in Nat
      BY <1>1, <1>3, <1>4, <2>1, ChargedIsCondition, ConditionIsOutermost
    <3>2. h = o
      BY <3>1
    <3>. QED  BY <1>2, <2>1, <3>2
  <2>2. CASE IsOuter(h)
    <3>1. ~IsCondition(o)
      BY <1>1, <1>3, <1>4, <2>2, OuterIsOutermost
    <3>. QED  BY <1>2, <1>4, <2>2, <3>1 DEF IsOuter
  <2>. QED  BY <2>1, <2>2 DEF Heads
<1>5. ASSUME IsCharged(o) PROVE \E h \in Heads(ConditionNodes) : h \in Conditions!Test(y)
  <2>1. o \in Heads(ConditionNodes)
    BY <1>1, <1>3, <1>5 DEF Heads
  <2>. QED  BY <1>1, <2>1
<1>6. ASSUME NEW s \in Conditions!Test(y), Conditions!Logical(s), ~IsCondition(o)
      PROVE  \E h \in Heads(ConditionNodes) : h \in Conditions!Test(y)
  <2>. DEFINE S == {t \in Conditions!Test(y) : Conditions!Logical(t)}
  <2>1. PICK t \in S : \A r \in S : t <= r
    <3>1. S \in SUBSET Nat /\ S # {}
      BY <1>3, <1>6
    <3>. HIDE DEF S
    <3>. QED  BY <3>1, LeastExists
  <2>2. t \in Conditions!Test(y) /\ Conditions!Logical(t) /\ t \in Conditions!Nodes /\ t # 1 /\ t \in Nat /\ t <= ConditionNodes
    BY <2>1, <1>3, NodeBounds
  <2>. DEFINE u == Conditions!Unwrapped(t)
              q == parent[u]
  <2>3. /\ u \in Conditions!Test(y) /\ u \in Conditions!Nodes /\ u <= t /\ u # 1 /\ q # 0
        /\ Conditions!Kind(q) \in Conditions!Connectives => q \in Conditions!Test(y)
    BY <2>2, UnwrappedInTest
  <2>4. ~Conditions!Logical(q)
    <3>. SUFFICES ASSUME Conditions!Logical(q) PROVE FALSE
      OBVIOUS
    <3>1. q \in S
      BY <2>3 DEF Conditions!Logical, Conditions!Connectives
    <3>2. t <= q /\ q \in Nat
      BY <1>3, <2>1, <3>1
    <3>3. q < u /\ u \in Nat
      <4>1. q \in 0..(u - 1) /\ u \in Nat
        BY <2>3, NodeBounds DEF Shape
      <4>. QED  BY <4>1
    <3>. QED  BY <2>2, <2>3, <3>2, <3>3
  <2>5. ~IsCondition(u)
    <3>. SUFFICES ASSUME IsCondition(u) PROVE FALSE
      OBVIOUS
    <3>. HIDE DEF u
    <3>1. u <= o /\ o <= u /\ u \in Nat /\ o \in Nat
      BY <1>1, <1>3, <2>3, ConditionIsOutermost
    <3>2. u = o
      BY <3>1
    <3>. QED  BY <1>6, <3>2
  <2>6. ~Conditions!EnclosingBooleanTest(t)
    BY <2>4, <2>5 DEF Conditions!EnclosingBooleanTest, IsCondition
  <2>7. t \in Heads(ConditionNodes)
    BY <2>2, <2>6 DEF Heads, IsOuter
  <2>. QED  BY <2>2, <2>7
<1>. QED  BY <1>2, <1>4, <1>5, <1>6

-----------------------------------------------------------------------------
(* compute() adds up what is counted.                                       *)

MetBy(m) == {x \in Conditions!Counted : x <= m}
CountedSoFar(m) == Cardinality(MetBy(m)) + Cardinality(Reached(m))

ConditionsInv ==
    /\ Shape
    /\ met \in 0..ConditionNodes
    /\ Conditions!Ordinary => conditions = CountedSoFar(met)

LEMMA NothingMet ==
    ASSUME Shape
    PROVE  CountedSoFar(0) = 0
<1>1. MetBy(0) = {}
  BY NodeBounds DEF MetBy, Conditions!Counted
<1>2. Heads(0) = {}
  <2>1. \A h \in Conditions!Nodes \ {1} : h \in Nat /\ h >= 1 /\ parent[h] \in Nat /\ parent[h] # 0
    BY NodeBounds DEF Shape
  <2>. QED  BY <2>1 DEF Heads
<1>3. Reached(0) = {}
  BY <1>2 DEF Reached
<1>. QED  BY <1>1, <1>3, FS_EmptySet DEF CountedSoFar

(* The node next met counts itself, and what is below one more head.        *)
LEMMA HeadsGrow ==
    ASSUME Shape, NEW x \in Conditions!Nodes
    PROVE  /\ Conditions!Charged(x) # Conditions!NoNode =>
                /\ Conditions!Charged(x) \in Conditions!Nodes \ {1} /\ ~Conditions!Logical(x)
                /\ Conditions!Charged(x) \notin Heads(x - 1)
                /\ Heads(x) = Heads(x - 1) \cup {Conditions!Charged(x)}
           /\ IsOuter(x) => /\ x \notin Heads(x - 1) /\ x # 1
                            /\ Heads(x) = Heads(x - 1) \cup {x}
           /\ Conditions!Charged(x) = Conditions!NoNode /\ ~IsOuter(x) => Heads(x) = Heads(x - 1)
<1>0. /\ x \in Nat /\ x >= 1
      /\ \A h \in Conditions!Nodes \ {1} : h \in Nat /\ h > 1 /\ parent[h] \in Nat /\ parent[h] # 0 /\ parent[h] < h
  BY NodeBounds DEF Shape
<1>1. \A h \in Conditions!Nodes \ {1} :
         h \in Heads(x) <=> h \in Heads(x - 1) \/ (parent[h] = x /\ IsCharged(h)) \/ (h = x /\ IsOuter(h))
  <2>1. \A h \in Conditions!Nodes \ {1} : (parent[h] <= x <=> parent[h] <= x - 1 \/ parent[h] = x)
                                 /\ (h <= x <=> h <= x - 1 \/ h = x)
    BY <1>0
  <2>. QED  BY <2>1 DEF Heads
<1>2. Heads(x) \subseteq Conditions!Nodes \ {1} /\ Heads(x - 1) \subseteq Conditions!Nodes \ {1}
  BY DEF Heads
<1>3. \A h \in Conditions!Nodes \ {1} : parent[h] = x /\ IsCharged(h) <=> h = Conditions!Charged(x) /\ Conditions!Charged(x) # Conditions!NoNode
  <2>1. ASSUME Conditions!Charged(x) # Conditions!NoNode PROVE parent[Conditions!Charged(x)] = x /\ Conditions!Charged(x) \in Conditions!Nodes
    <3>1. Conditions!Kind(x) \in {"if", "choose"} /\ Conditions!Charged(x) = Conditions!Min(Conditions!Below(x))
      BY <2>1 DEF Conditions!Charged, Conditions!Condition
    <3>2. Conditions!Below(x) # {} /\ Conditions!Below(x) \in SUBSET Nat /\ Conditions!Below(x) \subseteq Conditions!Nodes
      BY <3>1, NodeBounds DEF Shape, Conditions!Below
    <3>3. Conditions!Min(Conditions!Below(x)) \in Conditions!Below(x)
      <4>1. \E m \in Conditions!Below(x) : \A s \in Conditions!Below(x) : m <= s
        BY <3>2, LeastExists
      <4>. QED  BY <4>1 DEF Conditions!Min
    <3>. QED  BY <3>1, <3>2, <3>3 DEF Conditions!Below
  <2>2. \A h \in Conditions!Nodes \ {1} : h # Conditions!NoNode
    BY <1>0 DEF Conditions!NoNode
  <2>. QED  BY <2>1, <2>2 DEF IsCharged
<1>4. ASSUME Conditions!Charged(x) # Conditions!NoNode
      PROVE  /\ Conditions!Charged(x) \in Conditions!Nodes \ {1} /\ ~Conditions!Logical(x)
             /\ Conditions!Charged(x) \notin Heads(x - 1)
             /\ Heads(x) = Heads(x - 1) \cup {Conditions!Charged(x)}
  <2>. DEFINE c == Conditions!Charged(x)
  <2>1. Conditions!Kind(x) \in {"if", "choose"} /\ c = Conditions!Min(Conditions!Below(x))
    BY <1>4 DEF Conditions!Charged, Conditions!Condition
  <2>2. Conditions!Below(x) # {} /\ Conditions!Below(x) \in SUBSET Nat /\ Conditions!Below(x) \subseteq Conditions!Nodes
    BY <2>1, NodeBounds DEF Shape, Conditions!Below
  <2>3. c \in Conditions!Below(x)
    <3>1. \E m \in Conditions!Below(x) : \A s \in Conditions!Below(x) : m <= s
      BY <2>2, LeastExists
    <3>. QED  BY <2>1, <3>1 DEF Conditions!Min
  <2>4. c \in Conditions!Nodes /\ parent[c] = x /\ c # 1 /\ ~Conditions!Logical(x)
    <3>1. c \in Conditions!Nodes /\ parent[c] = x
      BY <2>3 DEF Conditions!Below
    <3>2. parent[1] = 0 \/ 1 \notin Conditions!Nodes
      BY DEF Shape
    <3>. QED  BY <1>0, <2>1, <3>1, <3>2 DEF Conditions!Logical
  <2>5. ~IsOuter(x)
    BY <2>4 DEF IsOuter
  <2>6. c \notin Heads(x - 1)
    <3>1. c > x /\ c \in Nat
      BY <1>0, <2>4
    <3>2. ~(parent[c] <= x - 1) /\ ~(c <= x - 1)
      BY <1>0, <2>4, <3>1
    <3>. QED  BY <3>2 DEF Heads
  <2>. HIDE DEF c
  <2>7. \A h \in Conditions!Nodes \ {1} : h \in Heads(x) <=> h \in Heads(x - 1) \/ h = c
    BY <1>1, <1>3, <1>4, <2>5 DEF c
  <2>. QED  BY <1>2, <2>4, <2>6, <2>7 DEF c
<1>5. ASSUME IsOuter(x)
      PROVE  /\ x \notin Heads(x - 1) /\ x # 1 /\ Conditions!Charged(x) = Conditions!NoNode
             /\ Heads(x) = Heads(x - 1) \cup {x}
  <2>1. x # 1 /\ Conditions!Charged(x) = Conditions!NoNode
    BY <1>5 DEF IsOuter, Conditions!Logical, Conditions!Charged, Conditions!Condition, Shape
  <2>2. ~IsCharged(x)
    <3>. SUFFICES ASSUME IsCharged(x) PROVE FALSE
      OBVIOUS
    <3>1. Conditions!Kind(parent[x]) \in {"if", "choose"} /\ parent[x] \in Conditions!Nodes
      <4>1. parent[x] \in Conditions!Nodes
        BY <1>0, <2>1, NodeBounds
      <4>2. Conditions!Charged(parent[x]) # Conditions!NoNode
        BY <1>0 DEF IsCharged, Conditions!NoNode
      <4>. QED  BY <4>1, <4>2 DEF Conditions!Charged, Conditions!Condition
    <3>2. Conditions!Unwrapped(x) = x
      <4>1. /\ Conditions!Unwrapped(x) \in Path(x)
            /\ \A z \in Path(x) : z # x /\ z >= Conditions!Unwrapped(x) => Conditions!Kind(z) = "paren"
        BY UnwrappedIs
      <4>2. parent[x] \in Path(x) /\ parent[x] # x
        <5>1. parent[x] \in Path(parent[x]) /\ Conditions!Above(parent, x) = Path(parent[x])
          BY <1>0, <2>1, <3>1, PathsAre
        <5>. QED  BY <1>0, <2>1, <5>1 DEF Path
      <4>3. ~(parent[x] >= Conditions!Unwrapped(x))
        BY <3>1, <4>1, <4>2
      <4>4. Path(x) = {x} \cup Path(parent[x]) /\ Path(parent[x]) \subseteq 1..parent[x]
        BY <1>0, <2>1, <3>1, PathsAre DEF Path
      <4>5. parent[x] \in Nat
        BY <1>0, <2>1
      <4>. QED  BY <4>1, <4>3, <4>4, <4>5
    <3>. QED  BY <1>5, <2>1, <3>2, ChargedIsCondition DEF IsOuter, Conditions!EnclosingBooleanTest, IsCondition
  <2>3. x \notin Heads(x - 1)
    BY <1>0, <2>2 DEF Heads
  <2>4. \A h \in Conditions!Nodes \ {1} : h \in Heads(x) <=> h \in Heads(x - 1) \/ h = x
    BY <1>1, <1>3, <1>5, <2>1
  <2>. QED  BY <1>2, <2>1, <2>3, <2>4
<1>6. ASSUME Conditions!Charged(x) = Conditions!NoNode, ~IsOuter(x) PROVE Heads(x) = Heads(x - 1)
  <2>1. \A h \in Conditions!Nodes \ {1} : h \in Heads(x) <=> h \in Heads(x - 1)
    BY <1>1, <1>3, <1>6
  <2>. QED  BY <1>2, <2>1
<1>. QED  BY <1>4, <1>5, <1>6

LEMMA HeadsInAll ==
    ASSUME Shape, NEW m, m \in 0..ConditionNodes
    PROVE  Heads(m) \subseteq Heads(ConditionNodes)
<1>1. \A h \in Conditions!Nodes \ {1} : parent[h] \in Nat /\ parent[h] <= ConditionNodes /\ h <= ConditionNodes
  BY NodeBounds DEF Shape
<1>. QED  BY <1>1 DEF Heads

LEMMA ReachedGrows ==
    ASSUME Shape, Conditions!Ordinary, NEW x \in Conditions!Nodes, NEW h \in Conditions!Nodes \ {1}, h \notin Heads(x - 1),
           Heads(x) = Heads(x - 1) \cup {h}
    PROVE  Cardinality(Reached(x)) = Cardinality(Reached(x - 1)) + Cardinality(Leaves(h))
<1>. DEFINE A == Reached(x - 1)
            B == Leaves(h)
<1>0. x \in Nat /\ x >= 1 /\ x - 1 \in 0..ConditionNodes /\ x \in 0..ConditionNodes
  BY NodeBounds
<1>1. Reached(x) = A \cup B
  <2>1. 1 \notin B
    <3>. SUFFICES ASSUME h \in Conditions!Test(1), 1 \in Conditions!Nodes PROVE FALSE
      BY DEF Leaves
    <3>1. h \in Nat /\ h >= 1 /\ h <= 1
      BY TestGoesDown, NodeBounds
    <3>. QED  BY <3>1
  <2>. QED  BY <2>1 DEF Reached, Leaves
<1>2. A \cap B = {}
  <2>. SUFFICES ASSUME NEW y \in A, y \in B PROVE FALSE
    OBVIOUS
  <2>1. PICK k \in Heads(x - 1) : k \in Conditions!Test(y)
    BY DEF Reached
  <2>2. k \in Heads(ConditionNodes) /\ h \in Heads(ConditionNodes)
    BY <1>0, HeadsInAll
  <2>3. y \in Conditions!Nodes /\ h \in Conditions!Test(y)
    BY DEF Leaves
  <2>. QED  BY <2>1, <2>2, <2>3, OneHead
<1>3. A \in SUBSET Conditions!Nodes /\ B \in SUBSET Conditions!Nodes
  BY DEF Reached, Leaves
<1>. HIDE DEF A, B
<1>4. /\ IsFiniteSet(A) /\ IsFiniteSet(B) /\ Cardinality(A) \in Nat /\ Cardinality(B) \in Nat
      /\ Cardinality(A \cap B) = 0
  BY <1>2, <1>3, SomeNodes, FS_EmptySet
<1>5. Cardinality(A \cup B) = Cardinality(A) + Cardinality(B) - Cardinality(A \cap B)
  BY <1>4, FS_Union
<1>. QED  BY <1>1, <1>4, <1>5 DEF A, B

LEMMA CountedGrows ==
    ASSUME Shape, Conditions!Ordinary, NEW x \in Conditions!Nodes
    PROVE  CountedSoFar(x) = CountedSoFar(x - 1) + Conditions!Compute(x)
<1>0. x \in Nat /\ x >= 1
  BY NodeBounds
<1>. DEFINE self == IF Conditions!Kind(x) \in {"compare", "choose"} THEN 1 ELSE 0
            below == (IF Conditions!Charged(x) # Conditions!NoNode THEN Conditions!UnaryConditions(Conditions!Charged(x)) ELSE 0)
                      + (IF Conditions!Logical(x) /\ ~Conditions!EnclosingBooleanTest(x) THEN Conditions!UnaryConditions(x) ELSE 0)
<1>1. Cardinality(MetBy(x)) = Cardinality(MetBy(x - 1)) + self
  <2>1. \A y \in Conditions!Counted : y \in Conditions!Nodes /\ y \in Nat
    BY NodeBounds DEF Conditions!Counted
  <2>2. MetBy(x - 1) \in SUBSET Conditions!Nodes /\ x \notin MetBy(x - 1)
    BY <1>0, <2>1 DEF MetBy
  <2>3. IsFiniteSet(MetBy(x - 1)) /\ Cardinality(MetBy(x - 1)) \in Nat
    BY <2>2, SomeNodes
  <2>4. CASE x \in Conditions!Counted
    <3>1. MetBy(x) = MetBy(x - 1) \cup {x}
      <4>1. \A y \in Conditions!Counted : y <= x <=> y <= x - 1 \/ y = x
        BY <1>0, <2>1
      <4>. QED  BY <2>4, <4>1 DEF MetBy
    <3>2. self = 1
      BY <2>4 DEF Conditions!Counted
    <3>. HIDE DEF self
    <3>3. Cardinality(MetBy(x - 1) \cup {x}) = Cardinality(MetBy(x - 1)) + 1
      BY <2>2, <2>3, FS_AddElement
    <3>. QED  BY <3>1, <3>2, <3>3
  <2>5. CASE x \notin Conditions!Counted
    <3>1. MetBy(x) = MetBy(x - 1)
      <4>1. \A y \in Conditions!Counted : y <= x <=> y <= x - 1
        BY <1>0, <2>1, <2>5
      <4>. QED  BY <4>1 DEF MetBy
    <3>2. self = 0
      BY <2>5 DEF Conditions!Counted
    <3>. HIDE DEF self
    <3>. QED  BY <2>3, <3>1, <3>2
  <2>. QED  BY <2>4, <2>5
<1>2. Cardinality(Reached(x)) = Cardinality(Reached(x - 1)) + below
  <2>0. Reached(x - 1) \in SUBSET Conditions!Nodes /\ Cardinality(Reached(x - 1)) \in Nat
    <3>1. Reached(x - 1) \in SUBSET Conditions!Nodes
      BY DEF Reached
    <3>. QED  BY <3>1, SomeNodes
  <2>1. \A h \in Conditions!Nodes : Cardinality(Leaves(h)) \in Nat /\ Conditions!UnaryConditions(h) = Cardinality(Leaves(h))
    <3>1. \A h \in Conditions!Nodes : Leaves(h) \in SUBSET Conditions!Nodes
      BY DEF Leaves
    <3>. QED  BY <3>1, SomeNodes, UnaryConditionsCount
  <2>2. CASE Conditions!Charged(x) # Conditions!NoNode
    <3>1. /\ Conditions!Charged(x) \in Conditions!Nodes \ {1} /\ ~Conditions!Logical(x) /\ Conditions!Charged(x) \notin Heads(x - 1)
          /\ Heads(x) = Heads(x - 1) \cup {Conditions!Charged(x)}
      BY <2>2, HeadsGrow
    <3>2. Cardinality(Reached(x)) = Cardinality(Reached(x - 1)) + Cardinality(Leaves(Conditions!Charged(x)))
      BY <3>1, ReachedGrows
    <3>3. below = Conditions!UnaryConditions(Conditions!Charged(x)) + 0
      BY <2>2, <3>1
    <3>. HIDE DEF below
    <3>. QED  BY <2>1, <3>1, <3>2, <3>3
  <2>3. CASE IsOuter(x)
    <3>1. /\ x \in Conditions!Nodes \ {1} /\ x \notin Heads(x - 1) /\ Heads(x) = Heads(x - 1) \cup {x}
      BY <2>3, HeadsGrow
    <3>2. Cardinality(Reached(x)) = Cardinality(Reached(x - 1)) + Cardinality(Leaves(x))
      BY <3>1, ReachedGrows
    <3>3. Conditions!Charged(x) = Conditions!NoNode
      BY <2>3, HeadsGrow DEF IsOuter
    <3>4. below = 0 + Conditions!UnaryConditions(x)
      BY <2>3, <3>3 DEF IsOuter
    <3>. HIDE DEF below
    <3>. QED  BY <2>1, <3>2, <3>4
  <2>4. CASE Conditions!Charged(x) = Conditions!NoNode /\ ~IsOuter(x)
    <3>1. Heads(x) = Heads(x - 1)
      BY <2>4, HeadsGrow
    <3>2. Reached(x) = Reached(x - 1)
      BY <3>1 DEF Reached
    <3>3. below = 0 + 0
      BY <2>4 DEF IsOuter
    <3>. HIDE DEF below
    <3>. QED  BY <2>0, <3>2, <3>3
  <2>. QED  BY <2>2, <2>3, <2>4
<1>3. self \in Nat /\ below \in Nat /\ Conditions!Compute(x) = self + below
  <2>1. \A h \in Conditions!Nodes : Conditions!UnaryConditions(h) \in Nat
    <3>1. \A h \in Conditions!Nodes : Leaves(h) \in SUBSET Conditions!Nodes
      BY DEF Leaves
    <3>. QED  BY <3>1, SomeNodes, UnaryConditionsCount
  <2>2. Conditions!Charged(x) # Conditions!NoNode => Conditions!Charged(x) \in Conditions!Nodes
    BY HeadsGrow
  <2>3. /\ (IF Conditions!Charged(x) # Conditions!NoNode THEN Conditions!UnaryConditions(Conditions!Charged(x)) ELSE 0) \in Nat
        /\ (IF Conditions!Logical(x) /\ ~Conditions!EnclosingBooleanTest(x) THEN Conditions!UnaryConditions(x) ELSE 0) \in Nat
    BY <2>1, <2>2
  <2>. QED  BY <2>3 DEF Conditions!Compute
<1>. HIDE DEF self, below
<1>4. Cardinality(MetBy(x - 1)) \in Nat /\ Cardinality(Reached(x - 1)) \in Nat
  <2>1. MetBy(x - 1) \in SUBSET Conditions!Nodes /\ Reached(x - 1) \in SUBSET Conditions!Nodes
    BY DEF MetBy, Reached, Conditions!Counted
  <2>. QED  BY <2>1, SomeNodes
<1>. QED  BY <1>1, <1>2, <1>3, <1>4 DEF CountedSoFar

-----------------------------------------------------------------------------
LEMMA SameTally == \A S : Conditions!Cardinality(S) = Cardinality(S)
BY DEF Conditions!Cardinality, Cardinality

(* The forms of a tree give each node a kind that takes the operands the    *)
(* tree has below it.                                                       *)
KindsOf(x) == {k \in IF x = 1 THEN {"if", "switch", "statement"} ELSE Conditions!Expressions :
                 Conditions!Cardinality(Conditions!Below(x)) \in Conditions!Operands(k)}

LEMMA FormsAre ==
    ASSUME form \in Conditions!Forms(parent)
    PROVE  \A x \in Conditions!Nodes : Conditions!Kind(x) \in KindsOf(x)
<1>. DEFINE kinds(x) == {k \in IF x = 1 THEN {"if", "switch", "statement"} ELSE Conditions!Expressions :
                           Conditions!Cardinality({y \in Conditions!Nodes : parent[y] = x}) \in Conditions!Operands(k)}
            Longer(F, x) == {Append(f, k) : f \in F, k \in kinds(x)}
            Def(g) == g = [x \in 0..ConditionNodes |-> IF x = 0 THEN {<<>>} ELSE Longer(g[x - 1], x)]
            up == CHOOSE g : Def(g)
<1>0. \A x \in Conditions!Nodes : kinds(x) = KindsOf(x)
  BY DEF KindsOf, Conditions!Below
<1>1. form \in up[ConditionNodes]
  BY DEF Conditions!Forms
<1>. HIDE DEF kinds
<1>. DEFINE All == UNION {kinds(x) : x \in 1..ConditionNodes}
<1>2. /\ ConditionNodes \in Nat /\ Conditions!Nodes = 1..ConditionNodes
      /\ \A x \in 1..ConditionNodes : x \in Nat /\ x >= 1 /\ x - 1 \in 0..ConditionNodes /\ x \in 0..ConditionNodes
      /\ \A x \in 1..ConditionNodes : kinds(x) \subseteq All
  BY NodeBounds DEF Conditions!Nodes
<1>. HIDE DEF All, Longer
<1>3. \E g : Def(g) /\ g \in [0..ConditionNodes -> SUBSET Seq(All)]
  <2>. DEFINE V == SUBSET Seq(All)
              p == [x \in 1..ConditionNodes |-> x - 1]
              s == [e \in (1..ConditionNodes) \X V |-> Longer(e[2], e[1])]
  <2>1. s \in [(1..ConditionNodes) \X V -> V]
    <3>1. ASSUME NEW x \in 1..ConditionNodes, NEW F \in V PROVE Longer(F, x) \in V
      <4>1. \A f \in F, k \in kinds(x) : f \in Seq(All) /\ k \in All
        BY <1>2
      <4>2. \A f \in Seq(All), k \in All : Append(f, k) \in Seq(All)
        OBVIOUS
      <4>. QED  BY <4>1, <4>2 DEF Longer
    <3>. HIDE DEF V
    <3>. QED  BY <3>1
  <2>2. \A x \in 1..ConditionNodes, S \in V : s[<<x, S>>] = Longer(S, x)
    <3>. HIDE DEF V
    <3>. QED  OBVIOUS
  <2>3. {<<>>} \in V
    OBVIOUS
  <2>. HIDE DEF s, V
  <2>4. Upward(ConditionNodes, p)
    BY <1>2 DEF Upward
  <2>5. PICK g : Climbed(g, ConditionNodes, p, V, {<<>>}, s)
    BY <2>1, <2>3, <2>4, Climbs
  <2>6. /\ g \in [0..ConditionNodes -> V] /\ g[0] = {<<>>}
        /\ \A x \in 1..ConditionNodes : g[x] = s[<<x, g[x - 1]>>]
    BY <2>5 DEF Climbed
  <2>7. \A x \in 1..ConditionNodes : g[x] = Longer(g[x - 1], x)
    <3>1. \A x \in 1..ConditionNodes : g[x - 1] \in V
      BY <1>2, <2>6
    <3>. QED  BY <2>2, <2>6, <3>1
  <2>8. \A x \in 0..ConditionNodes :
           g[x] = IF x = 0 THEN {<<>>} ELSE Longer(g[x - 1], x)
    <3>1. \A x \in 0..ConditionNodes : x = 0 \/ x \in 1..ConditionNodes
      BY <1>2
    <3>2. \A x \in 1..ConditionNodes : x # 0
      BY <1>2
    <3>. QED  BY <2>6, <2>7, <3>1, <3>2
  <2>9. g = [x \in 0..ConditionNodes |-> g[x]]
    BY <2>6
  <2>10. Def(g)
    BY <2>8, <2>9
  <2>. QED  BY <2>6, <2>10 DEF V
<1>4. Def(up)
  BY <1>3
<1>5. up[0] = {<<>>} /\ \A x \in 1..ConditionNodes : up[x] = Longer(up[x - 1], x)
  <2>. HIDE DEF up
  <2>1. 0 \in 0..ConditionNodes /\ \A x \in 1..ConditionNodes : x # 0
    BY <1>2
  <2>. QED  BY <1>2, <1>4, <2>1
<1>. HIDE DEF Def, up
<1>. DEFINE OfKinds(f, n) == f \in Seq(All) /\ Len(f) = n /\ \A x \in 1..n : f[x] \in kinds(x)
            T == {n \in 0..ConditionNodes : \A f \in up[n] : OfKinds(f, n)}
<1>6. 0 \in T
  <2>1. OfKinds(<<>>, 0)
    OBVIOUS
  <2>. HIDE DEF OfKinds
  <2>. QED  BY <1>2, <1>5, <2>1
<1>7. ASSUME NEW n \in 0..(ConditionNodes - 1), n \in T PROVE n + 1 \in T
  <2>1. n \in Nat /\ n + 1 \in 1..ConditionNodes /\ n + 1 \in 0..ConditionNodes /\ (n + 1) - 1 = n
    BY <1>2
  <2>2. \A f \in up[n] : OfKinds(f, n)
    BY <1>7
  <2>3. up[n + 1] = Longer(up[n], n + 1)
    BY <1>5, <2>1
  <2>4. ASSUME NEW f \in up[n], NEW k \in kinds(n + 1) PROVE OfKinds(Append(f, k), n + 1)
    <3>1. f \in Seq(All) /\ k \in All /\ Len(f) = n /\ \A x \in 1..n : f[x] \in kinds(x)
      BY <1>2, <2>1, <2>2
    <3>2. /\ Append(f, k) \in Seq(All) /\ Len(Append(f, k)) = n + 1
          /\ Append(f, k)[n + 1] = k /\ \A x \in 1..n : Append(f, k)[x] = f[x]
      BY <3>1
    <3>3. \A x \in 1..(n + 1) : x = n + 1 \/ x \in 1..n
      BY <2>1
    <3>. QED  BY <3>1, <3>2, <3>3
  <2>. HIDE DEF OfKinds
  <2>5. \A f \in up[n + 1] : OfKinds(f, n + 1)
    <3>. TAKE f \in up[n + 1]
    <3>1. PICK h \in up[n], k \in kinds(n + 1) : f = Append(h, k)
      BY <2>3 DEF Longer
    <3>2. OfKinds(Append(h, k), n + 1)
      BY <2>4
    <3>. QED  BY <3>1, <3>2
  <2>. QED  BY <2>1, <2>5
<1>. HIDE DEF T
<1>8. ConditionNodes \in T
  <2>1. ConditionNodes \in 0..ConditionNodes
    BY <1>2
  <2>. QED  BY <1>2, <1>6, <1>7, <2>1, CountingUp
<1>. QED  BY <1>0, <1>1, <1>2, <1>8 DEF T, Conditions!Kind

LEMMA TestsInitShape ==
    ASSUME Conditions!Init
    PROVE  Shape
<1>1. \A x \in Conditions!Nodes : Conditions!Kind(x) \in KindsOf(x)
  BY FormsAre DEF Conditions!Init
<1>2. ASSUME NEW x \in Conditions!Nodes PROVE parent[x] \in 0..(x - 1) /\ (x # 1 => parent[x] # 0)
  <2>1. parent[1] = 0 /\ \A y \in Conditions!Nodes \ {1} : parent[y] \in 1..(y - 1)
    BY DEF Conditions!Init, Conditions!Parents
  <2>2. x \in Nat /\ x >= 1
    BY NodeBounds
  <2>. QED  BY <2>1, <2>2
<1>3. ASSUME NEW x \in Conditions!Nodes, x = 1 PROVE Conditions!Kind(x) \in {"if", "switch", "statement"}
  BY <1>1, <1>3 DEF KindsOf
<1>4. ASSUME NEW x \in Conditions!Nodes, Conditions!Kind(x) \in {"if", "switch", "choose"} PROVE Conditions!Below(x) # {}
  <2>1. Cardinality(Conditions!Below(x)) \in Conditions!Operands(Conditions!Kind(x))
    BY <1>1, SameTally DEF KindsOf
  <2>2. Cardinality(Conditions!Below(x)) # 0
    <3>1. Conditions!Kind(x) = "if" => Conditions!Operands(Conditions!Kind(x)) = {1}
      BY DEF Conditions!Operands
    <3>2. Conditions!Kind(x) = "choose" => Conditions!Operands(Conditions!Kind(x)) = {3}
      BY DEF Conditions!Operands
    <3>3. Conditions!Kind(x) = "switch" => Conditions!Operands(Conditions!Kind(x)) = {1}
      BY DEF Conditions!Operands
    <3>. QED  BY <1>4, <2>1, <3>1, <3>2, <3>3
  <2>. QED  BY <2>2, FS_EmptySet
<1>. QED  BY <1>2, <1>3, <1>4 DEF Shape

LEMMA ConditionsStart == Conditions!Init => ConditionsInv
<1>. SUFFICES ASSUME Conditions!Init PROVE ConditionsInv
  OBVIOUS
<1>1. Shape
  BY TestsInitShape
<1>2. met = 0 /\ conditions = 0 /\ 0 \in 0..ConditionNodes
  BY ConditionsAssumption DEF Conditions!Init
<1>. QED  BY <1>1, <1>2, NothingMet DEF ConditionsInv

LEMMA ConditionsStep ==
    ASSUME ConditionsInv, Conditions!Next
    PROVE  ConditionsInv'
<1>1. Shape /\ met \in 0..ConditionNodes /\ met < ConditionNodes /\ met' = met + 1
      /\ conditions' = conditions + Conditions!Compute(met + 1) /\ parent' = parent /\ form' = form
  BY DEF ConditionsInv, Conditions!Next, Conditions!Visit
<1>2. met + 1 \in Conditions!Nodes /\ met' \in 0..ConditionNodes /\ (met + 1) - 1 = met
  BY <1>1, NodeBounds
<1>3. Shape' /\ (Conditions!Ordinary' <=> Conditions!Ordinary)
  BY <1>1 DEF Shape, Conditions!Ordinary, Conditions!Kind, Conditions!Below, Conditions!Logical, Conditions!Unwrapped
<1>4. CountedSoFar(met)' = CountedSoFar(met')
  BY <1>1 DEF CountedSoFar, MetBy, Conditions!Counted, Reached, Heads, IsCharged, Conditions!Charged, IsOuter,
              Conditions!Kind, Conditions!Below, Conditions!Condition,
              Conditions!Logical, Conditions!EnclosingBooleanTest,
              Conditions!Unwrapped, Conditions!Test, Counts, Conditions!Connectives
<1>5. Conditions!Ordinary => conditions' = CountedSoFar(met')
  BY <1>1, <1>2, CountedGrows DEF ConditionsInv
<1>. QED  BY <1>2, <1>3, <1>4, <1>5 DEF ConditionsInv

LEMMA ConditionsEnd == ConditionsInv => Conditions!EachConditionOnce
<1>. SUFFICES ASSUME ConditionsInv, met = ConditionNodes, Conditions!Ordinary
              PROVE  conditions = Cardinality(Conditions!Counted)
                                  + Cardinality({x \in Conditions!Nodes \ {1} : Conditions!Operand(x)})
  BY SameTally DEF Conditions!EachConditionOnce
<1>1. MetBy(ConditionNodes) = Conditions!Counted
  BY NodeBounds DEF MetBy, Conditions!Counted
<1>2. Reached(ConditionNodes) = {x \in Conditions!Nodes \ {1} : Conditions!Operand(x)}
  BY AllReached DEF ConditionsInv
<1>. QED  BY <1>1, <1>2 DEF ConditionsInv, CountedSoFar

(* The conditions are counted when they are the subject.                    *)
TestsInv == subject = "conditions" => ConditionsInv

LEMMA TestsStutter == ConditionsInv /\ UNCHANGED Conditions!vars => ConditionsInv'
<1>. SUFFICES ASSUME ConditionsInv, UNCHANGED Conditions!vars PROVE ConditionsInv'
  OBVIOUS
<1>1. parent' = parent /\ form' = form /\ met' = met /\ conditions' = conditions
  BY DEF Conditions!vars
<1>2. Shape' /\ (Conditions!Ordinary' <=> Conditions!Ordinary)
  BY <1>1 DEF ConditionsInv, Shape, Conditions!Ordinary, Conditions!Kind, Conditions!Below,
              Conditions!Logical, Conditions!Unwrapped
<1>3. CountedSoFar(met)' = CountedSoFar(met)
  BY <1>1 DEF CountedSoFar, MetBy, Conditions!Counted, Reached, Heads, IsCharged, Conditions!Charged, IsOuter,
              Conditions!Kind, Conditions!Below, Conditions!Condition, Conditions!Logical,
              Conditions!EnclosingBooleanTest,
              Conditions!Unwrapped, Conditions!Test, Counts,
              Conditions!Connectives
<1>. QED  BY <1>1, <1>2, <1>3 DEF ConditionsInv

(* Whatever encloses it, an operand of a test is counted as a condition     *)
(* once and one that is in no test not at all, for every statement: the     *)
(* nodes that unary_conditions() is asked about when compute() meets the    *)
(* nodes have each operand below exactly one of them.  The test that is the *)
(* condition of a switch, a static_assert or an #if is none for this        *)
(* purpose: enclosing_boolean_test() takes it for counted, and nobody does. *)
THEOREM EachConditionOnceHolds == MetricsSpec => []EachConditionOnce
<1>1. MetricsInit => TestsInv
  BY ConditionsStart DEF MetricsInit, TestsInv
<1>2. TestsInv /\ [MetricsNext]_allVars => TestsInv'
  <2>. SUFFICES ASSUME TestsInv, [MetricsNext]_allVars, subject' = "conditions" PROVE ConditionsInv'
    BY DEF TestsInv
  <2>1. CASE UNCHANGED allVars
    <3>1. UNCHANGED Conditions!vars /\ subject = "conditions"
      BY <2>1 DEF allVars, conditionsOnly, Conditions!vars
    <3>. QED  BY <3>1, TestsStutter DEF TestsInv
  <2>2. CASE Tests(Conditions!Next)
    <3>1. ConditionsInv /\ Conditions!Next
      BY <2>2 DEF Tests, Step, TestsInv
    <3>. QED  BY <3>1, ConditionsStep
  <2>3. CASE \/ Runner(Next) \/ Spaces(Walk!Next) \/ Calls(Cycles!Next) \/ Rows(Lines!Next)
             \/ Charges(Cognitive!Next) \/ Held(Memory!Next) \/ Inventories(Classes!Next)
    <3>1. subject # "conditions" /\ subject' = subject
      BY <2>3 DEF Runner, Spaces, Calls, Rows, Charges, Held, Inventories, Step
    <3>. QED  BY <3>1
  <2>. QED  BY <2>1, <2>2, <2>3 DEF MetricsNext
<1>3. TestsInv => EachConditionOnce
  BY ConditionsEnd DEF TestsInv, EachConditionOnce
<1>. QED  BY <1>1, <1>2, <1>3, PTL DEF MetricsSpec

=============================================================================
