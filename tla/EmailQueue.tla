----------------------------- MODULE EmailQueue -----------------------------
(***************************************************************************)
(* The way of an invitation's email: emailQueue.add in InvitationService,  *)
(* the BullMQ queue in Redis, EmailProcessor and EmailService.  A job is   *)
(* named by its invitation.  The queue and the mail provider are not under *)
(* src/: they are modelled as the options of add and the calls use them.   *)
(*                                                                         *)
(* process never throws, because sendEmail catches what the provider       *)
(* throws: a job that is run is a job that completes, and the five         *)
(* attempts of the options are never drawn on.  A job is run again only    *)
(* when the process that ran it has died.                                  *)
(***************************************************************************)
EXTENDS Naturals

CONSTANTS Jobs,
          Workers,    \* server processes; each runs one job at a time
          MaxStalls,  \* how often BullMQ puts a stalled job back (1 by default)
          None

ASSUME Sentinel == None \notin Jobs
ASSUME MaxStallsAssumption == MaxStalls \in Nat

VARIABLES
  state,    \* "none", "delayed", "waiting", "active", or "gone" from Redis
  stalls,   \* times a job was put back
  pc, job,  \* a worker, and the job it runs
  mails,    \* emails that have arrived for a job
  refused,  \* history: jobs with a send that ended in an error
  dropped   \* history: jobs given up because they stalled too often

vars == <<state, stalls, pc, job, mails, refused, dropped>>

Init ==
  /\ state = [j \in Jobs |-> "none"]
  /\ stalls = [j \in Jobs |-> 0]
  /\ pc = [w \in Workers |-> "idle"]
  /\ job = [w \in Workers |-> None]
  /\ mails = [j \in Jobs |-> 0]
  /\ refused = {} /\ dropped = {}

Goto(w, label) == pc' = [pc EXCEPT ![w] = label]
Become(j, s) == state' = [state EXCEPT ![j] = s]

-----------------------------------------------------------------------------
(* InvitationService.generateInvitation adds the job                        *)

\* Mutant: the request sends the email and adds no job
\* (invitation.service.ts:138-148).
SendInline(j) ==
  /\ state[j] = "none" /\ mails[j] = 0
  /\ mails' = [mails EXCEPT ![j] = 1]
  /\ UNCHANGED <<state, stalls, pc, job, refused, dropped>>

Add(j) ==
  /\ state[j] = "none"
  /\ Become(j, "delayed")
  /\ UNCHANGED <<stalls, pc, job, mails, refused, dropped>>

\* delay: 3000.
DelayOver(j) ==
  /\ state[j] = "delayed"
  /\ Become(j, "waiting")
  /\ UNCHANGED <<stalls, pc, job, mails, refused, dropped>>

-----------------------------------------------------------------------------
(* EmailProcessor.process runs it                                           *)

TakeTo(w, label) ==
  /\ pc[w] = "idle"
  /\ \E j \in Jobs :
       /\ state[j] = "waiting"
       /\ Become(j, "active")
       /\ job' = [job EXCEPT ![w] = j]
  /\ Goto(w, label)
  /\ UNCHANGED <<stalls, mails, refused, dropped>>

\* Mutant: process does not wait for the email (email.processor.ts:20).
TakeUnawaited(w) == TakeTo(w, "returned")

Take(w) == TakeTo(w, "sending")

\* The provider accepts the email and the answer comes back.
SendOk(w) ==
  /\ pc[w] = "sending"
  /\ mails' = [mails EXCEPT ![job[w]] = @ + 1]
  /\ Goto(w, "returned")
  /\ UNCHANGED <<state, stalls, job, refused, dropped>>

\* Mutant: the catch sends the email again (email.service.ts:43-45).
SendAgain(w) ==
  /\ pc[w] = "sending"
  /\ \E n \in 0..2 : mails' = [mails EXCEPT ![job[w]] = @ + n]
  /\ refused' = refused \cup {job[w]}
  /\ Goto(w, "returned")
  /\ UNCHANGED <<state, stalls, job, dropped>>

\* Mutant: send takes a callback that resolves the promise on success only, so
\* that process waits for ever, and its lock is kept.
SendUnsettled(w) ==
  /\ pc[w] = "sending"
  /\ \/ UNCHANGED mails
     \/ mails' = [mails EXCEPT ![job[w]] = @ + 1]
  /\ refused' = refused \cup {job[w]}
  /\ Goto(w, "pending")
  /\ UNCHANGED <<state, stalls, job, dropped>>

\* send throws, before the email has left or after: a lost answer looks like a
\* refusal.  The error is logged, and process returns as if all was well.
SendFails(w) ==
  /\ pc[w] = "sending"
  /\ \/ UNCHANGED mails
     \/ mails' = [mails EXCEPT ![job[w]] = @ + 1]
  /\ refused' = refused \cup {job[w]}
  /\ Goto(w, "returned")
  /\ UNCHANGED <<state, stalls, job, dropped>>

\* removeOnComplete: true.
Complete(w) ==
  /\ pc[w] = "returned"
  /\ Become(job[w], "gone")
  /\ job' = [job EXCEPT ![w] = None]
  /\ Goto(w, "idle")
  /\ UNCHANGED <<stalls, mails, refused, dropped>>

-----------------------------------------------------------------------------
(* The process dies and is started again                                    *)

\* With a job in its hands, before the email is sent or after.
Crash(w) ==
  /\ pc[w] \in {"sending", "returned"}
  /\ Goto(w, "down")
  /\ job' = [job EXCEPT ![w] = None]
  /\ UNCHANGED <<state, stalls, mails, refused, dropped>>

Restart(w) ==
  /\ pc[w] = "down"
  /\ Goto(w, "idle")
  /\ UNCHANGED <<state, stalls, job, mails, refused, dropped>>

\* The lock of an active job nobody runs expires: back to the queue, or, when
\* it has stalled too often, failed and removed (removeOnFail: true).
Stalled(j) ==
  /\ state[j] = "active" /\ \A w \in Workers : job[w] # j
  /\ \/ /\ stalls[j] < MaxStalls
        /\ stalls' = [stalls EXCEPT ![j] = @ + 1]
        /\ Become(j, "waiting")
        /\ UNCHANGED dropped
     \/ /\ stalls[j] >= MaxStalls
        /\ dropped' = dropped \cup {j}
        /\ Become(j, "gone")
        /\ UNCHANGED stalls
  /\ UNCHANGED <<pc, job, mails, refused>>

Send(w) == SendOk(w) \/ SendFails(w)

Next ==
  \/ \E j \in Jobs : Add(j) \/ DelayOver(j) \/ Stalled(j)
  \/ \E w \in Workers : Take(w) \/ Send(w) \/ Complete(w) \/ Crash(w) \/ Restart(w)

Spec == Init /\ [][Next]_vars

\* The clock of the queue runs, its stalled-job check is repeated, a worker
\* that is up asks for jobs and awaits its calls, and the host starts a process
\* again that has died (README.md:87).  Nothing makes a crash happen or an email be asked for.
FairSpec ==
  /\ Spec
  /\ \A j \in Jobs : WF_vars(DelayOver(j)) /\ WF_vars(Stalled(j))
  /\ \A w \in Workers :
       /\ WF_vars(Take(w)) /\ WF_vars(Send(w))
       /\ WF_vars(Complete(w)) /\ WF_vars(Restart(w))

-----------------------------------------------------------------------------
\* The shape of every variable; completed and failed jobs are removed
\* (invitation.service.ts:147).
TypeOK ==
  /\ state \in [Jobs -> {"none", "delayed", "waiting", "active", "gone"}]
  /\ stalls \in [Jobs -> 0..MaxStalls]
  /\ pc \in [Workers -> {"idle", "sending", "returned", "down"}]
  /\ job \in [Workers -> Jobs \cup {None}]
  /\ mails \in [Jobs -> Nat]
  /\ refused \subseteq Jobs /\ dropped \subseteq Jobs

\* Nobody gets an invitation's email twice, not even when the provider's answer
\* is lost, except once more for every time the process died under its job
\* (email.service.ts:34-45).
MailsPerRun == \A j \in Jobs : mails[j] <= stalls[j] + 1

\* An email that will never arrive was refused by the provider, or its job took
\* the process down with it time and again: nothing else loses one
\* (email.processor.ts:19-27, email.service.ts:43-45).
LossHasCause ==
  \A j \in Jobs : state[j] = "gone" /\ mails[j] = 0 => j \in refused \cup dropped

\* Every job leaves the queue, whatever the provider answers and whenever the
\* processes die: none is left behind, and none is run for ever
\* (invitation.service.ts:138-148, email.service.ts:43-45).
Settled == \A j \in Jobs : state[j] = "delayed" ~> state[j] = "gone"

\* Mails arrive for jobs that were added, and one at a time.
Mail == INSTANCE Mail WITH Mails <- Jobs,
                           asked <- {j \in Jobs : state[j] # "none"},
                           arrived <- {j \in Jobs : mails[j] > 0}
ImplementsMail == Mail!Spec
=============================================================================
