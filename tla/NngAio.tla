------------------------------- MODULE NngAio -------------------------------
(***************************************************************************)
(* nng's asynchronous operations: an aio (core/aio.c), the task that runs  *)
(* its callback (core/taskq.c), and the thread that expires it.            *)
(*                                                                         *)
(* Every nn_send and nn_recv of the plugin, and every step of nng's own    *)
(* protocol and transport code, is an operation on an aio.  A consumer     *)
(* begins it, a provider (here the wait for a message in core/msgqueue.c)  *)
(* lists it and finishes it, and its callback runs on a thread of the task *)
(* queue or, for a synchronous finish, on the provider's own thread.  An   *)
(* abort, a close, a stop, the release of the aio and the timer take the   *)
(* cancel function under the lock nni_aio_lk and call it after the unlock: *)
(* this is the window all the properties are about.                        *)
(*                                                                         *)
(* An action is one section under a lock.  Abstracted: the message and the *)
(* io vector, error codes but those the timer tells apart, allocation      *)
(* failures, the start and end of the threads.                             *)
(***************************************************************************)
EXTENDS Naturals, FiniteSets, SequencesExt

CONSTANTS
    Aios,        \* the aios, each with the consumer that owns it
    Users,       \* the consumers' threads
    UserOf,      \* the thread of an aio's consumer
    Workers,     \* the threads of the task queue
    Poller,      \* the provider's thread
    Expirer,     \* the thread of nni_aio_expire_loop
    None,        \* NULL
    Never,       \* no deadline: NNI_TIME_NEVER, and NNG_DURATION_INFINITE
    Durations,   \* the timeouts and sleeps used
    MaxTime,     \* bound: the clock
    Use,         \* what an aio is used for: operations of a provider's list, sleeps
    MaxOps,      \* bound: operations begun on an aio, of each
    Ended        \* bound: the aios whose consumer aborts, closes, stops or releases them

Threads == Users \cup Workers \cup {Poller, Expirer}

ASSUME AioAssumption ==
    /\ UserOf \in [Aios -> Users]
    /\ \A a, b \in Aios : UserOf[a] = UserOf[b] => a = b
    /\ Durations \subseteq Nat /\ MaxTime \in Nat
    /\ MaxOps \in [Aios -> Nat] /\ Ended \subseteq Aios
    /\ Use \in [Aios -> SUBSET {"list", "sleep"}]
    /\ Never \notin Nat /\ None \notin Aios \cup Users \cup Workers
    /\ Users \cap Workers = {} /\ Poller # Expirer
    /\ {Poller, Expirer} \cap (Users \cup Workers) = {}

VARIABLES
    aio,         \* the fields of struct nng_aio
    expireList,  \* nni_aio_expire_aios
    expireAio,   \* nni_aio_expire_aio: the aio the timer holds
    task,        \* the fields of struct nni_task
    tasks,       \* tq_tasks
    waiting,     \* the provider's list
    thr,         \* what each thread is doing
    now,         \* nni_clock
    freed,       \* the aios released
    begun,       \* history: operations begun
    called       \* history: callbacks started

aioVars == <<aio, expireList, expireAio, task, tasks, waiting, thr, now, freed,
             begun, called>>

Results == {"ok", "timedout", "canceled", "closed"}
Cancels == {"none", "list", "sleep"}

AtRest == [at |-> "idle", aio |-> None, fn |-> "none", rv |-> "ok", next |-> "idle"]

\* A thread that is inside a callback goes on with it, any other is idle again.
Resume(t) == IF t \in Users THEN AtRest ELSE [AtRest EXCEPT !.at = "ret", !.aio = thr[t].aio]

AioInit ==
    /\ aio = [a \in Aios |-> [stop |-> FALSE, sleep |-> FALSE, sleeprv |-> "ok",
                              timeout |-> Never, expire |-> Never,
                              cancel |-> "none", result |-> "ok"]]
    /\ expireList = <<>> /\ expireAio = None
    /\ task = [a \in Aios |-> [busy |-> 0, prep |-> FALSE, thr |-> None, reap |-> FALSE]]
    /\ tasks = <<>> /\ waiting = <<>>
    /\ thr = [t \in Threads |-> AtRest]
    /\ now = 0 /\ freed = {}
    /\ begun = [a \in Aios |-> 0] /\ called = [a \in Aios |-> 0]

-----------------------------------------------------------------------------
(* The helpers of aio.c and taskq.c.                                       *)

Listed(s, a) == a \in ToSet(s)

\* nni_list_node_remove: out of the list, if it is in it.
Without(s, a) ==
    IF Listed(s, a) THEN RemoveAt(s, CHOOSE i \in DOMAIN s : s[i] = a) ELSE s

\* nni_task_dispatch and nni_task_exec: a task that was prepared is busy already.
MadeBusy(k) == IF k.prep THEN [k EXCEPT !.prep = FALSE] ELSE [k EXCEPT !.busy = @ + 1]

\* Slip: the new deadline is not compared.
ExpireAddLast(a, e) == Append(expireList, a)

\* Slip: the walk ends without the insertion.
ExpireAddBreak(a, e) ==
    IF \E i \in DOMAIN expireList : aio[expireList[i]].expire <= e
    THEN expireList ELSE <<a>> \o expireList

\* nni_aio_expire_add: behind the last aio that is not due later.
ExpireAdd(a, e) ==
    LET n == Max({0} \cup {i \in DOMAIN expireList : aio[expireList[i]].expire <= e})
    IN  SubSeq(expireList, 1, n) \o <<a>> \o SubSeq(expireList, n + 1, Len(expireList))

\* What nni_aio_finish_impl does to the aio before its task runs.
Finished(a, rv) ==
    /\ expireList' = Without(expireList, a)
    /\ aio' = [aio EXCEPT ![a].result = rv, ![a].cancel = "none",
                          ![a].expire = Never, ![a].sleep = FALSE]

Finish(a, rv) ==
    /\ Finished(a, rv)
    /\ task' = [task EXCEPT ![a] = MadeBusy(@)]
    /\ tasks' = Append(tasks, a)

-----------------------------------------------------------------------------
(* A consumer starts an operation: from its thread, when none is pending,  *)
(* or from the callback of the last one, when that did not fail.           *)

MayBegin(t, a) ==
    /\ a \notin freed /\ begun[a] < MaxOps[a]
    /\ \/ t = UserOf[a] /\ thr[t].at = "idle" /\ task[a].busy = 0
       \/ thr[t].at = "cb" /\ thr[t].aio = a /\ aio[a].result = "ok"

\* nni_aio_begin refuses an aio that was stopped: the callback gets the error.
BeginStopped(t, a) ==
    /\ MayBegin(t, a) /\ aio[a].stop
    /\ Finish(a, "canceled")
    /\ begun' = [begun EXCEPT ![a] = @ + 1]
    /\ thr' = [thr EXCEPT ![t] = Resume(t)]
    /\ UNCHANGED <<expireAio, waiting, now, freed, called>>

Begin(t, a, d, fn) ==
    /\ MayBegin(t, a) /\ ~aio[a].stop
    /\ d \in Nat => now + d <= MaxTime
    /\ aio' = [aio EXCEPT ![a].result = "ok", ![a].cancel = "none", ![a].timeout = d]
    /\ task' = [task EXCEPT ![a].busy = @ + 1, ![a].prep = TRUE]
    /\ begun' = [begun EXCEPT ![a] = @ + 1]
    /\ thr' = [thr EXCEPT ![t] = [at |-> "sched", aio |-> a, fn |-> fn, rv |-> "ok",
                                  next |-> thr[t].at]]
    /\ UNCHANGED <<expireList, expireAio, tasks, waiting, now, freed, called>>

\* Slip: whether the aio was stopped meanwhile is not looked at.
ScheduleErrorNoStop(a, fn) ==
    IF fn = "list" /\ aio[a].timeout = 0 THEN "timedout" ELSE "ok"

\* What nni_aio_schedule answers.
ScheduleError(a, fn) ==
    CASE fn = "list" /\ aio[a].timeout = 0 -> "timedout"
      [] aio[a].stop                       -> "closed"
      [] OTHER                             -> "ok"

\* A provider that cannot schedule the operation finishes it with the error.
ScheduleFails(t) ==
    LET a == thr[t].aio IN
    /\ thr[t].at = "sched" /\ ScheduleError(a, thr[t].fn) # "ok"
    /\ Finish(a, ScheduleError(a, thr[t].fn))
    /\ thr' = [thr EXCEPT ![t] = Resume(t)]
    /\ UNCHANGED <<expireAio, waiting, now, freed, begun, called>>

\* The wait for a message: nni_aio_schedule and the provider's list.
ScheduleList(t) ==
    LET a == thr[t].aio
        e == IF aio[a].timeout = Never THEN Never ELSE now + aio[a].timeout
    IN
    /\ thr[t].at = "sched" /\ thr[t].fn = "list"
    /\ ScheduleError(a, "list") = "ok"
    /\ aio' = [aio EXCEPT ![a].expire = e, ![a].cancel = "list"]
    /\ expireList' = IF e = Never THEN expireList ELSE ExpireAdd(a, e)
    /\ waiting' = Append(Without(waiting, a), a)
    /\ thr' = [thr EXCEPT ![t] = Resume(t)]
    /\ UNCHANGED <<expireAio, task, tasks, now, freed, begun, called>>

\* nni_sleep_aio: the sleep ends early, with an error, when the timeout is shorter.
ScheduleSleep(t, ms) ==
    LET a     == thr[t].aio
        early == aio[a].timeout # Never /\ ms > aio[a].timeout
        e     == now + (IF early THEN aio[a].timeout ELSE ms)
    IN
    /\ thr[t].at = "sched" /\ thr[t].fn = "sleep"
    /\ ScheduleError(a, "sleep") = "ok"
    /\ e <= MaxTime
    /\ aio' = [aio EXCEPT ![a].sleep = TRUE,
                          ![a].sleeprv = IF early THEN "timedout" ELSE "ok",
                          ![a].expire = e, ![a].cancel = "sleep"]
    /\ expireList' = ExpireAdd(a, e)
    /\ thr' = [thr EXCEPT ![t] = Resume(t)]
    /\ UNCHANGED <<expireAio, task, tasks, waiting, now, freed, begun, called>>

-----------------------------------------------------------------------------
(* The provider finishes the first operation that waits.                   *)

Complete ==
    /\ waiting # <<>>
    /\ Finish(Head(waiting), "ok")
    /\ waiting' = Tail(waiting)
    /\ UNCHANGED <<expireAio, thr, now, freed, begun, called>>

\* nni_aio_finish_synch: the callback runs on the provider's thread.
CompleteSynch ==
    LET a == Head(waiting) IN
    /\ waiting # <<>> /\ thr[Poller].at = "idle"
    /\ waiting' = Tail(waiting)
    /\ Finished(a, "ok")
    /\ task' = [task EXCEPT ![a] = MadeBusy(@)]
    /\ thr' = [thr EXCEPT ![Poller] = [AtRest EXCEPT !.at = "cb", !.aio = a]]
    /\ called' = [called EXCEPT ![a] = @ + 1]
    /\ UNCHANGED <<expireAio, tasks, now, freed, begun>>

-----------------------------------------------------------------------------
(* Who ends an operation early: takes the cancel function under the lock   *)
(* and calls it after.                                                     *)

Take(t, a, rv, next) ==
    thr' = [thr EXCEPT ![t] = [at |-> "fn", aio |-> a, fn |-> aio[a].cancel,
                               rv |-> rv, next |-> next]]

UserMay(t, a) == a \in Ended /\ t = UserOf[a] /\ thr[t].at = "idle" /\ a \notin freed

Abort(t, a) ==
    /\ UserMay(t, a)
    /\ Take(t, a, "canceled", "idle")
    /\ aio' = [aio EXCEPT ![a].cancel = "none"]
    /\ UNCHANGED <<expireList, expireAio, task, tasks, waiting, now, freed, begun, called>>

AioClose(t, a) ==
    /\ UserMay(t, a)
    /\ Take(t, a, "closed", "idle")
    /\ aio' = [aio EXCEPT ![a].cancel = "none", ![a].stop = TRUE]
    /\ UNCHANGED <<expireList, expireAio, task, tasks, waiting, now, freed, begun, called>>

AioStop(t, a) ==
    /\ UserMay(t, a)
    /\ Take(t, a, "canceled", "wait")
    /\ aio' = [aio EXCEPT ![a].cancel = "none", ![a].stop = TRUE]
    /\ UNCHANGED <<expireList, expireAio, task, tasks, waiting, now, freed, begun, called>>

\* By the consumer, or by the callback of a consumer that gave the aio up.
AioFini(t, a) ==
    /\ \/ UserMay(t, a)
       \/ t \in Workers /\ thr[t].at = "cb" /\ thr[t].aio = a /\ thr[UserOf[a]].at = "gone"
    /\ a \notin freed
    /\ Take(t, a, "closed", "finiExpire")
    /\ aio' = [aio EXCEPT ![a].cancel = "none", ![a].stop = TRUE]
    /\ UNCHANGED <<expireList, expireAio, task, tasks, waiting, now, freed, begun, called>>

\* The consumer leaves an aio to its callback.
GiveUp(t, a) ==
    /\ UserMay(t, a) /\ task[a].busy > 0
    /\ thr' = [thr EXCEPT ![t].at = "gone"]
    /\ UNCHANGED <<aio, expireList, expireAio, task, tasks, waiting, now, freed, begun, called>>

\* Slip: the operation is not looked for in the list.
CancelFindsAlways(a, fn) == fn # "none"

\* A cancel function finds out, under its own lock, whether the operation waits.
CancelFinds(a, fn) ==
    \/ fn = "list" /\ Listed(waiting, a)
    \/ fn = "sleep" /\ aio[a].sleep

CallCancel(t) ==
    LET a == thr[t].aio
        c == thr[t].fn
    IN
    /\ thr[t].at = "fn"
    /\ IF CancelFinds(a, c)
       THEN /\ Finish(a, thr[t].rv)
            /\ waiting' = IF c = "list" THEN Without(waiting, a) ELSE waiting
       ELSE UNCHANGED <<aio, expireList, task, tasks, waiting>>
    /\ thr' = [thr EXCEPT ![t] = [AtRest EXCEPT !.at = thr[t].next, !.aio = a]]
    /\ UNCHANGED <<expireAio, now, freed, begun, called>>

\* nni_aio_wait, at the end of nni_aio_stop.
WaitEnds(t) ==
    /\ thr[t].at = "wait" /\ task[thr[t].aio].busy = 0
    /\ thr' = [thr EXCEPT ![t] = AtRest]
    /\ UNCHANGED <<aio, expireList, expireAio, task, tasks, waiting, now, freed, begun, called>>

\* Slip: the timer's hold is not waited for.
ExpireReleasedNoWait(t) == TRUE

ExpireReleased(t) == expireAio # thr[t].aio

FiniExpire(t) ==
    /\ thr[t].at = "finiExpire" /\ ExpireReleased(t)
    /\ thr' = [thr EXCEPT ![t].at = "finiTask"]
    /\ UNCHANGED <<aio, expireList, expireAio, task, tasks, waiting, now, freed, begun, called>>

\* nni_task_fini: inside its own callback the release of the task is deferred.
FiniTask(t) ==
    LET a == thr[t].aio IN
    /\ thr[t].at = "finiTask"
    /\ \/ /\ task[a].busy > 0 /\ task[a].thr = t
          /\ task' = [task EXCEPT ![a].reap = TRUE]
       \/ /\ task[a].busy = 0
          /\ UNCHANGED task
    /\ freed' = freed \cup {a}
    /\ thr' = [thr EXCEPT ![t].at = IF t \in Users THEN "gone" ELSE "ret"]
    /\ UNCHANGED <<aio, expireList, expireAio, tasks, waiting, now, begun, called>>

-----------------------------------------------------------------------------
(* The thread of nni_aio_expire_loop.                                      *)

Expire ==
    LET a == Head(expireList) IN
    /\ thr[Expirer].at = "idle"
    /\ expireList # <<>> /\ aio[a].expire <= now
    /\ expireList' = Tail(expireList)
    /\ IF aio[a].cancel = "none"
       THEN UNCHANGED <<aio, thr, expireAio>>
       ELSE /\ expireAio' = a
            /\ Take(Expirer, a, IF aio[a].sleep THEN aio[a].sleeprv ELSE "timedout", "expired")
            /\ aio' = [aio EXCEPT ![a].cancel = "none"]
    /\ UNCHANGED <<task, tasks, waiting, now, freed, begun, called>>

Expired ==
    /\ thr[Expirer].at = "expired"
    /\ expireAio' = None
    /\ thr' = [thr EXCEPT ![Expirer] = AtRest]
    /\ UNCHANGED <<aio, expireList, task, tasks, waiting, now, freed, begun, called>>

-----------------------------------------------------------------------------
(* The threads of the task queue.                                          *)

RunTask(t) ==
    LET a == Head(tasks) IN
    /\ thr[t].at = "idle" /\ tasks # <<>>
    /\ tasks' = Tail(tasks)
    /\ task' = [task EXCEPT ![a].thr = t]
    /\ thr' = [thr EXCEPT ![t] = [AtRest EXCEPT !.at = "cb", !.aio = a]]
    /\ called' = [called EXCEPT ![a] = @ + 1]
    /\ UNCHANGED <<aio, expireList, expireAio, waiting, now, freed, begun>>

\* The callback returns, after one more operation or a release, or without.
TaskDone(t) ==
    LET a == thr[t].aio IN
    /\ thr[t].at \in {"cb", "ret"}
    /\ task' = [task EXCEPT ![a].busy = @ - 1,
                            ![a].thr = IF t \in Workers THEN None ELSE @]
    /\ thr' = [thr EXCEPT ![t] = AtRest]
    /\ UNCHANGED <<aio, expireList, expireAio, tasks, waiting, now, freed, begun, called>>

\* The bound on the clock leaves room for the operations about to be scheduled.
Tick ==
    /\ now < MaxTime
    /\ \A t \in Threads : thr[t].at = "sched" =>
            LET d == aio[thr[t].aio].timeout IN d \in Nat => now + d < MaxTime
    /\ now' = now + 1
    /\ UNCHANGED <<aio, expireList, expireAio, task, tasks, waiting, thr, freed, begun, called>>

-----------------------------------------------------------------------------
(* What a thread does once it has begun.                                   *)
Go(t) ==
    \/ ScheduleFails(t) \/ ScheduleList(t)
    \/ \E ms \in Durations : ScheduleSleep(t, ms)
    \/ CallCancel(t) \/ WaitEnds(t) \/ FiniExpire(t) \/ FiniTask(t)

Consume(t, a) ==
    \/ BeginStopped(t, a)
    \/ \E d \in Durations \cup {Never}, fn \in Use[a] : Begin(t, a, d, fn)
    \/ Abort(t, a) \/ AioClose(t, a) \/ AioStop(t, a) \/ AioFini(t, a) \/ GiveUp(t, a)

AioNext ==
    \/ \E t \in Users \cup Workers \cup {Poller}, a \in Aios : Consume(t, a)
    \/ \E t \in Threads : Go(t)
    \/ Complete \/ CompleteSynch
    \/ Expire \/ Expired
    \/ \E t \in Workers : RunTask(t)
    \/ \E t \in Workers \cup {Poller} : TaskDone(t)
    \/ Tick

AioSpec == AioInit /\ [][AioNext]_aioVars

\* Every thread goes on, and the clock; that a message comes is not assumed.
FairAioSpec ==
    /\ AioSpec
    /\ \A t \in Threads : WF_aioVars(Go(t))
    /\ \A t \in Workers : WF_aioVars(RunTask(t))
    /\ \A t \in Workers \cup {Poller} : WF_aioVars(TaskDone(t))
    /\ WF_aioVars(Expire) /\ WF_aioVars(Expired) /\ WF_aioVars(Tick)

-----------------------------------------------------------------------------
(* Properties.                                                             *)

AioTypeOK ==
    /\ aio \in [Aios -> [stop : BOOLEAN, sleep : BOOLEAN, sleeprv : Results,
                         timeout : Durations \cup {Never},
                         expire : 0 .. MaxTime \cup {Never},
                         cancel : Cancels, result : Results]]
    /\ expireList \in Seq(Aios) /\ expireAio \in Aios \cup {None}
    /\ task \in [Aios -> [busy : Nat, prep : BOOLEAN,
                          thr : Workers \cup {None}, reap : BOOLEAN]]
    /\ tasks \in Seq(Aios) /\ waiting \in Seq(Aios)
    /\ thr \in [Threads -> [at : {"idle", "sched", "fn", "wait", "finiExpire",
                                  "finiTask", "expired", "cb", "ret", "gone"},
                            aio : Aios \cup {None}, fn : Cancels, rv : Results,
                            next : {"idle", "cb", "wait", "finiExpire", "expired"}]]
    /\ now \in 0 .. MaxTime /\ freed \subseteq Aios
    /\ begun \in [Aios -> Nat] /\  called \in [Aios -> Nat]

\* Design notes of aio.c: an operation is completed exactly once.  However the
\* finish by the provider, the timer and the consumer's abort, stop and release
\* meet, an operation's callback runs at most once, and has run when the task is
\* no longer busy, which is what nni_aio_wait and nni_aio_stop wait for.
CompletedOnce ==
    \A a \in Aios : /\ called[a] <= begun[a]
                    /\ task[a].busy = 0 => called[a] = begun[a]

\* A released aio is out of everybody's hands: in no list, not held by the timer,
\* and no thread is about to call a function with it.  (A callback that released
\* its own aio still returns.)
ReleasedIsUnused ==
    \A a \in freed :
        /\ ~Listed(waiting, a) /\ ~Listed(expireList, a) /\ ~Listed(tasks, a)
        /\ expireAio # a
        /\ \A t \in Threads : thr[t].aio = a => thr[t].at \in {"idle", "ret", "gone"}

\* aio.c:577-582, "Unexpired; the list is ordered, so we just wait.": the timer looks
\* at the first deadline only, so the list is in their order, and an operation that
\* can be cancelled is in it just when it has one.
TimersInOrder ==
    /\ \A i, j \in DOMAIN expireList : i < j => aio[expireList[i]].expire <= aio[expireList[j]].expire
    /\ \A a \in Aios : aio[a].cancel # "none"
                      => (Listed(expireList, a) <=> aio[a].expire # Never)

\* nni_aio_stop and nni_aio_fini come back: there is no operation the stop cannot
\* end, in particular none that was begun before and is scheduled after it.
StopReturns ==
    \A t \in {UserOf[a] : a \in Ended} : thr[t].at \in {"fn", "wait", "finiExpire", "finiTask"}
                        ~> thr[t].at \in {"idle", "gone"}

\* An operation with a deadline ends, although no message comes.
DeadlineEnds ==
    \A a \in {b \in Aios : "list" \in Use[b]} : (Listed(waiting, a) /\ aio[a].expire # Never) ~> ~Listed(waiting, a)

\* docs/man/nng_aio_set_timeout.3.adoc: an operation is aborted with NNG_ETIMEDOUT
\* when its timer expires: not before, and never without a timeout.
TimesOutInTime ==
    [][\A a \in Aios :
        (aio'[a].result = "timedout" /\ aio[a].result # "timedout")
            => \/ aio[a].timeout = 0
               \/ aio[a].expire # Never /\ aio[a].expire <= now]_aioVars
=============================================================================
