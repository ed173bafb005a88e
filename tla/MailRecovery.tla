---------------------------- MODULE MailRecovery ----------------------------
(***************************************************************************)
(* Mail as an administrator sees to it: with a recipient to send them to,  *)
(* test mails are sent again and again, and whenever one does not arrive   *)
(* the settings are stored again.  Of everything else - errors, refusals,  *)
(* other administrators, recipients added, changed and deleted - there is  *)
(* a bounded number, and the notices of alerts are told in between.        *)
(***************************************************************************)
EXTENDS Mail

CONSTANTS
    MaxUpsets, \* bound on what goes wrong and on what others do
    Own,       \* in Senders: the administrator's account with the service
    Desk       \* in Targets: the address that is tested

ASSUME UpsetsAssumption ==
    MaxUpsets \in Nat /\ Own \in Senders /\ Desk \in Targets /\ Severities # {}

VARIABLES
    doubts, \* BOOLEAN: a test mail did not arrive since the settings were stored
    upsets  \* 0 .. MaxUpsets: how many are still to come

recoveryVars == <<vars, doubts, upsets>>

RecoveryInit == Init /\ doubts = TRUE /\ upsets = MaxUpsets

OwnBatch == {<<"enabled", "true">>, <<"api_key", Own>>, <<"domain", Own>>}

LowestRank == CHOOSE x \in Severities : \A y \in Severities : x <= y

Idle(pcs) == \A p \in Handlers : task[p].pc \notin pcs

Configures ==
    /\ doubts /\ Idle({"upsert"})
    /\ doubts' = FALSE
    /\ \E p \in Handlers : UpdateBatchForUI(p, OwnBatch)
    /\ UNCHANGED upsets

AddsDesk ==
    /\ RowOf(Desk) = {} /\ Idle({"add"})
    /\ \E p \in Handlers : CreateRecipients(p, {<<Desk, LowestRank>>})
    /\ UNCHANGED <<doubts, upsets>>

Testing == \E p \in Handlers : task[p].target # None

Tests ==
    /\ ~doubts /\ RowOf(Desk) # {} /\ Idle({"upsert"}) /\ ~Testing
    /\ \E p \in Handlers : SendTestEmail(p, Desk)
    /\ UNCHANGED <<doubts, upsets>>

Tells(n) ==
    /\ \E p \in Handlers, rank \in Severities : NotifyAlert(p, n, rank)
    /\ UNCHANGED <<doubts, upsets>>

\* Whoever tests sees whether the mail arrives.
Proceed(p) ==
    /\ Work(p)
    /\ doubts' = (doubts \/ (At(p, "test") /\ ~IsWhole(task[p].config)))
    /\ UNCHANGED upsets

Upset ==
    /\ upsets > 0 /\ upsets' = upsets - 1
    /\ \/ \E p \in Handlers : Trouble(p) /\ doubts' = (doubts \/ At(p, "test"))
       \/ /\ \/ \E p \in Handlers :
                  \/ \E sender \in Senders \ {Own} :
                       UpdateBatchForUI(p, {<<"api_key", sender>>, <<"domain", sender>>})
                  \/ \E v \in {"false", None} : UpdateBatchForUI(p, {<<"enabled", v>>})
                  \/ \E t \in Targets, min \in Severities : CreateRecipients(p, {<<t, min>>})
             \/ \E r \in RecipientIds : DeleteRecipient(r) \/ SetEnabled(r, ~recipients[r].enabled)
          /\ UNCHANGED doubts

RecoveryNext ==
    \/ Configures \/ AddsDesk \/ Tests \/ \E n \in Notices : Tells(n)
    \/ \E p \in Handlers : Proceed(p)
    \/ Upset

Fairness ==
    /\ \A p \in Handlers : WF_recoveryVars(Proceed(p))
    /\ SF_recoveryVars(Configures) /\ SF_recoveryVars(AddsDesk) /\ SF_recoveryVars(Tests)

RecoverySpec == RecoveryInit /\ [][RecoveryNext]_recoveryVars /\ Fairness

-----------------------------------------------------------------------------

\* Whatever a batch that failed half way, or two that overlapped, or a
\* service made from settings read in between have left: test mails find it
\* out, and in the end the settings stay those of one account.
MailIsRepaired == <>[]IsWhole([k \in Keys |-> Resolved(k)])
=============================================================================
