-------------------------------- MODULE Jobs --------------------------------
(***************************************************************************)
(* What goes on without a request: the assembly of uploads and the sweep   *)
(* of their sessions, deliveries of webhooks, recurring rules, and the     *)
(* loads of what a process keeps in memory.  They share no state, so a     *)
(* behaviour moves the one that part names and leaves the others in their  *)
(* initial states: the states reached are the sum of theirs, not the       *)
(* product.                                                                *)
(***************************************************************************)
EXTENDS UploadSession, Webhooks, Recurring, Copies

VARIABLE part

Parts == {"uploads", "webhooks", "recurring", "copies"}

jobsVars == <<part, vars, webhooksVars, recurringVars, copiesVars>>

-----------------------------------------------------------------------------
JobsTypeOK ==
    /\ part \in Parts
    /\ TypeOK
    /\ WebhooksTypeOK
    /\ RecurringTypeOK
    /\ CopiesTypeOK

JobsInit ==
    /\ part \in Parts
    /\ Init
    /\ WebhooksInit
    /\ RecurringInit
    /\ CopiesInit

-----------------------------------------------------------------------------
UploadsPart ==
    /\ part = "uploads"
    /\ Next
    /\ UNCHANGED <<part, webhooksVars, recurringVars, copiesVars>>

WebhooksPart ==
    /\ part = "webhooks"
    /\ WebhooksNext
    /\ UNCHANGED <<part, vars, recurringVars, copiesVars>>

RecurringPart ==
    /\ part = "recurring"
    /\ RecurringNext
    /\ UNCHANGED <<part, vars, webhooksVars, copiesVars>>

CopiesPart ==
    /\ part = "copies"
    /\ CopiesNext
    /\ UNCHANGED <<part, vars, webhooksVars, recurringVars>>

JobsNext ==
    \/ UploadsPart
    \/ WebhooksPart
    \/ RecurringPart
    \/ CopiesPart

JobsSpec == JobsInit /\ [][JobsNext]_jobsVars

-----------------------------------------------------------------------------
(* Fairness, for the behaviours that move the component: what a resting    *)
(* one could do is not asked of the others.                                *)

(* A handler that has started runs on, the cron and the background calls   *)
(* get their turn, and time passes; no client has to call anything.        *)
UploadsFair ==
    /\ \A r \in Request : WF_vars(part = "uploads" /\ Proceed(r))
    /\ WF_vars(part = "uploads" /\ (SweepRead \/ SweepClean \/ SweepWrite))
    /\ WF_vars(part = "uploads" /\ CleanUp)
    /\ WF_vars(part = "uploads" /\ UndoFile)
    /\ WF_vars(part = "uploads" /\ Expire)

(* A sender goes on: an attempt without an answer is aborted, a sleep ends. *)
WebhooksFair ==
    \A s \in Sender : WF_webhooksVars(part = "webhooks" /\ SenderStep(s))

(* Time passes, the process is up at the turn of some years, and the job   *)
(* goes on; its writes may fail now and then, but not every time it comes  *)
(* to the rule.                                                            *)
RecurringFair ==
    /\ WF_recurringVars(part = "recurring" /\ HourPasses)
    /\ SF_recurringVars(part = "recurring" /\ JobRead)
    /\ WF_recurringVars(part = "recurring" /\ (JobSpawn \/ JobSpawnFails))
    /\ SF_recurringVars(part = "recurring" /\ JobAdvance)
    /\ SF_recurringVars(part = "recurring" /\ JobRescue)

(* Loads go on, and those of one table do not fail for ever; time passes,  *)
(* and the cron fires every hour.                                          *)
CopiesFair ==
    /\ \A k \in Copy : SF_copiesVars(part = "copies" /\ ReadSomewhere(k))
    /\ WF_copiesVars(part = "copies" /\ StoreSomewhere)
    /\ SF_copiesVars(part = "copies" /\ RefreshSomewhere)
    /\ \A k \in Copy : WF_copiesVars(part = "copies" /\ CopyRunsOut(k))

JobsFairSpec == JobsSpec /\ UploadsFair /\ WebhooksFair /\ RecurringFair /\ CopiesFair
=============================================================================
