-------------------------- MODULE ConcurrentRunner --------------------------
(***************************************************************************)
(* The producer-consumer runner behind `lspf-analysis metrics'             *)
(* (crates/lspf-analysis-core/src/concurrent_files.rs), running            *)
(* act_on_file of crates/lspf-analysis/src/main.rs on every file.  One     *)
(* producer thread walks the paths and sends a job per file on an          *)
(* unbounded channel, consumer threads take them, and the thread of run()  *)
(* starts them all, poisons the channel when the producer is done, and     *)
(* joins them.                                                             *)
(*                                                                         *)
(* A job is the number of the file it carries, in the order they are sent: *)
(* overlapping paths may send one file as two jobs.  Which files match the *)
(* include and exclude globs is left open, as are the failures of threads, *)
(* the walk and the callbacks.                                             *)
(***************************************************************************)
EXTENDS Naturals, Sequences

CONSTANTS NumJobs,   \* the --num-jobs option
          MaxFiles,  \* bound: files the walk finds
          Pill,      \* None, the message that ends a consumer
          NoJob

ASSUME ConcurrentRunnerAssumption ==
    /\ NumJobs \in Nat
    /\ MaxFiles \in Nat
    /\ Pill \notin Nat
    /\ NoJob \notin Nat

VARIABLES channel,    \* messages sent and not yet received
          producer,   \* the producer thread, its result once it is over
          found,      \* files sent so far
          consumer,   \* each consumer thread
          job,        \* the file each consumer is processing
          collected,  \* reports pushed on the list shared with run_metrics
          processed,  \* files act_on_file returned from
          main,       \* where run() is
          started,    \* consumer threads spawned so far
          poisoned,   \* pills sent so far
          joined,     \* consumer threads joined so far
          result      \* what run() returned

threadVars == <<producer, consumer, job>>
workVars == <<found, collected, processed>>
mainVars == <<main, started, poisoned, joined, result>>
vars == <<channel, threadVars, workVars, mainVars>>

(* new(): one of the jobs is the producer, and there is always a consumer.  *)
Workers == (IF NumJobs < 2 THEN 2 ELSE NumJobs) - 1
Consumers == 1..Workers
Files == 1..MaxFiles

TypeOK ==
    /\ channel \in Seq(Files \cup {Pill})
    /\ producer \in {"unborn", "walking", "ok", "failed", "panicked"}
    /\ found \in 0..MaxFiles
    /\ consumer \in [Consumers -> {"unborn", "receiving", "processing", "ended", "panicked"}]
    /\ job \in [Consumers -> Files \cup {NoJob}]
    /\ collected \subseteq Files
    /\ processed \subseteq Files
    /\ main \in {"produce", "consume", "join", "poison", "reap", "returned"}
    /\ started \in 0..Workers
    /\ poisoned \in 0..Workers
    /\ joined \in 0..Workers
    /\ result \in {"none", "ok", "Producer", "Sender", "Receiver", "Thread"}

Init ==
    /\ channel = <<>>
    /\ producer = "unborn"
    /\ found = 0
    /\ consumer = [c \in Consumers |-> "unborn"]
    /\ job = [c \in Consumers |-> NoJob]
    /\ collected = {}
    /\ processed = {}
    /\ main = "produce"
    /\ started = 0
    /\ poisoned = 0
    /\ joined = 0
    /\ result = "none"

(* run() keeps an end of either kind of the channel until it returns.       *)
Running == main # "returned"

SenderAlive == Running \/ producer = "walking"

ReceiverAlive ==
    Running \/ \E c \in Consumers : consumer[c] \in {"receiving", "processing"}

-----------------------------------------------------------------------------
(* explore(), on the producer thread                                        *)

(* Mutant of Send: a file below a directory is also sent as a path.         *)
SendTwice ==
    /\ producer = "walking"
    /\ found < MaxFiles
    /\ ReceiverAlive
    /\ found' = found + 1
    /\ channel' = channel \o <<found + 1, found + 1>>
    /\ UNCHANGED <<threadVars, collected, processed, mainVars>>

(* The walk comes to a file that matches.  (Messages left when the last     *)
(* receiver goes are dropped; here they stay, with nobody to see them.)     *)
Send ==
    /\ producer = "walking"
    /\ found < MaxFiles
    /\ ReceiverAlive
    /\ found' = found + 1
    /\ channel' = Append(channel, found + 1)
    /\ UNCHANGED <<threadVars, collected, processed, mainVars>>

(* The walk is over; an entry cannot be read, or there is nobody to send    *)
(* to; or it panics.                                                        *)
EndWalk ==
    /\ producer = "walking"
    /\ producer' \in {"ok", "failed", "panicked"}
    /\ UNCHANGED <<channel, consumer, job, workVars, mainVars>>

-----------------------------------------------------------------------------
(* consumer()                                                               *)

Receive(c) ==
    /\ consumer[c] = "receiving"
    /\ channel # <<>>
    /\ channel' = Tail(channel)
    /\ IF Head(channel) = Pill
       THEN consumer' = [consumer EXCEPT ![c] = "ended"] /\ UNCHANGED job
       ELSE /\ consumer' = [consumer EXCEPT ![c] = "processing"]
            /\ job' = [job EXCEPT ![c] = Head(channel)]
    /\ UNCHANGED <<producer, workVars, mainVars>>

(* recv() fails once the channel is empty and nobody can send any more.     *)
Disconnect(c) ==
    /\ consumer[c] = "receiving"
    /\ channel = <<>>
    /\ ~SenderAlive
    /\ consumer' = [consumer EXCEPT ![c] = "ended"]
    /\ UNCHANGED <<channel, producer, job, workVars, mainVars>>

(* act_on_file has a report: it is pushed under the list's lock, before the *)
(* output is written.                                                       *)
Collect(c) ==
    /\ consumer[c] = "processing"
    /\ job[c] \notin collected
    /\ collected' = collected \cup {job[c]}
    /\ UNCHANGED <<channel, threadVars, found, processed, mainVars>>

(* act_on_file returns, with or without a report; an error is only logged.  *)
Finish(c) ==
    /\ consumer[c] = "processing"
    /\ consumer' = [consumer EXCEPT ![c] = "receiving"]
    /\ job' = [job EXCEPT ![c] = NoJob]
    /\ processed' = processed \cup {job[c]}
    /\ UNCHANGED <<channel, producer, found, collected, mainVars>>

(* It panics, parsing the file or writing its output: the thread is gone.   *)
Panic(c) ==
    /\ consumer[c] = "processing"
    /\ consumer' = [consumer EXCEPT ![c] = "panicked"]
    /\ UNCHANGED <<channel, producer, job, workVars, mainVars>>

-----------------------------------------------------------------------------
(* run()                                                                    *)

Return(r) ==
    /\ main' = "returned"
    /\ result' = r

SpawnProducer ==
    /\ main = "produce"
    /\ \/ producer' = "walking" /\ main' = "consume" /\ UNCHANGED result
       \/ Return("Thread") /\ UNCHANGED producer
    /\ UNCHANGED <<channel, consumer, job, workVars, started, poisoned, joined>>

(* A consumer that cannot be started ends the run; those before it are left *)
(* to themselves.                                                           *)
SpawnConsumer ==
    /\ main = "consume"
    /\ \/ /\ started' = started + 1
          /\ consumer' = [consumer EXCEPT ![started + 1] = "receiving"]
          /\ main' = IF started' = Workers THEN "join" ELSE "consume"
          /\ UNCHANGED result
       \/ Return("Thread") /\ UNCHANGED <<started, consumer>>
    /\ UNCHANGED <<channel, producer, job, workVars, poisoned, joined>>

(* Mutant of JoinProducer: the consumers are poisoned while it walks.       *)
JoinNobody ==
    /\ main = "join"
    /\ main' = "poison"
    /\ UNCHANGED <<channel, threadVars, workVars, started, poisoned, joined, result>>

JoinProducer ==
    /\ main = "join"
    /\ \/ producer = "panicked" /\ Return("Producer")
       \/ producer \in {"ok", "failed"} /\ main' = "poison" /\ UNCHANGED result
    /\ UNCHANGED <<channel, threadVars, workVars, started, poisoned, joined>>

(* Mutant of Poison: one pill too few.                                      *)
PoisonAllButOne ==
    /\ main = "poison"
    /\ channel' = IF poisoned = 0 THEN channel ELSE Append(channel, Pill)
    /\ poisoned' = poisoned + 1
    /\ main' = IF poisoned' = Workers THEN "reap" ELSE "poison"
    /\ UNCHANGED <<threadVars, workVars, started, joined, result>>

Poison ==
    /\ main = "poison"
    /\ channel' = Append(channel, Pill)
    /\ poisoned' = poisoned + 1
    /\ main' = IF poisoned' = Workers THEN "reap" ELSE "poison"
    /\ UNCHANGED <<threadVars, workVars, started, joined, result>>

(* Mutant of Reap: a panic is not looked for.                               *)
ReapAnyway ==
    /\ main = "reap"
    /\ consumer[joined + 1] \in {"ended", "panicked"}
    /\ joined' = joined + 1
    /\ IF joined' < Workers
       THEN UNCHANGED <<main, result>>
       ELSE Return(IF producer = "ok" THEN "ok" ELSE "Sender")
    /\ UNCHANGED <<channel, threadVars, workVars, started, poisoned>>

(* The consumers are joined in turn, up to the first that panicked; then    *)
(* the result is the producer's.                                            *)
Reap ==
    /\ main = "reap"
    /\ \/ /\ consumer[joined + 1] = "panicked"
          /\ Return("Receiver")
          /\ UNCHANGED joined
       \/ /\ consumer[joined + 1] = "ended"
          /\ joined' = joined + 1
          /\ IF joined' < Workers
             THEN UNCHANGED <<main, result>>
             ELSE Return(IF producer = "ok" THEN "ok" ELSE "Sender")
    /\ UNCHANGED <<channel, threadVars, workVars, started, poisoned>>

-----------------------------------------------------------------------------

ProducerStep == Send \/ EndWalk
ConsumerStep(c) == Receive(c) \/ Disconnect(c) \/ Collect(c) \/ Finish(c) \/ Panic(c)
MainStep == SpawnProducer \/ SpawnConsumer \/ JoinProducer \/ Poison \/ Reap

Next == ProducerStep \/ MainStep \/ \E c \in Consumers : ConsumerStep(c)

(* The operating system runs every thread, and the walk, a file and a       *)
(* thread's start are finite.                                               *)
Fairness ==
    /\ WF_vars(ProducerStep)
    /\ WF_vars(MainStep)
    /\ \A c \in Consumers : WF_vars(ConsumerStep(c))

Spec == Init /\ [][Next]_vars
FairSpec == Spec /\ Fairness

-----------------------------------------------------------------------------

InChannel(f) == \E i \in DOMAIN channel : channel[i] = f
InHand(f) == \E c \in Consumers : job[c] = f

(* Every file sent is in the channel, in one consumer's hands or processed, *)
(* never two of them and never twice in one: none is lost but with a thread *)
(* that panics, and the summary counts no job twice.                        *)
EachFileOnce ==
    /\ \A f \in 1..found :
         \/ InChannel(f) /\ ~InHand(f) /\ f \notin processed \cup collected
         \/ ~InChannel(f) /\ InHand(f) /\ f \notin processed
         \/ ~InChannel(f) /\ ~InHand(f) /\ f \in processed
    /\ \A i, j \in DOMAIN channel : channel[i] = channel[j] /\ channel[i] # Pill => i = j
    /\ \A c, d \in Consumers : job[c] = job[d] /\ job[c] # NoJob => c = d

(* No pill is ahead of a file: a consumer does not leave work behind it.    *)
PillsComeLast ==
    \A i, j \in DOMAIN channel : i < j /\ channel[i] = Pill => channel[j] = Pill

(* run() returns Ok only over a complete list: the walk went through, every *)
(* file it found is processed, no consumer panicked, and none still runs    *)
(* that could add to the reports run_metrics goes on to sum up.             *)
OkIsComplete ==
    result = "ok" =>
        /\ producer = "ok"
        /\ processed = 1..found
        /\ \A c \in Consumers : consumer[c] = "ended"

Ended ==
    /\ main = "returned"
    /\ producer # "walking"
    /\ \A c \in Consumers : consumer[c] \notin {"receiving", "processing"}

(* run() returns, whichever threads fail or panic, and wherever; and no     *)
(* thread outlives its work, also when run() returned before it was done:   *)
(* the channel closes behind whoever can still send.                        *)
Terminates == <>[]Ended

=============================================================================
