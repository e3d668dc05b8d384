----------------------------- MODULE AuditTrail -----------------------------
(***************************************************************************)
(* The event index with those who live on it: a subscriber to the activity *)
(* stream, the auditor's keys and the readers of amounts.  A behaviour     *)
(* follows one plan, which bounds what happens in it.  An incident is a    *)
(* poll that fails or an operator's backfill.                              *)
(***************************************************************************)
EXTENDS ActivityStream, Disclosure

CONSTANTS Plans  \* what each kind of behaviour may contain

ASSUME PlansAssumption ==
    \A p \in Plans :
        /\ p.txs \subseteq Txs \ Rotations /\ p.rotations \subseteq Rotations
        /\ p.reads \subseteq Reads /\ p.kinds \subseteq Kinds /\ p.starts \subseteq Nat

VARIABLES plan, incidents

vars == <<chainVars, indexerVars, streamVars, keyVars, disclosureVars, plan, incidents>>

Init ==
    /\ ChainInit /\ IndexerInit /\ StreamInit /\ KeysInit /\ DisclosureInit
    /\ plan \in Plans /\ incidents = 0

\* Pollers are alike: the first idle one begins.
NextPoller == {p \in Pollers \ Active : \A o \in Pollers \ Active : p <= o}

IndexStep ==
    /\ \/ \E p \in Active : PollStep(p) /\ UNCHANGED incidents
       \/ \E p \in Active : incidents < plan.incidents /\ AbortPoll(p) /\ incidents' = incidents + 1
       \/ \E p \in NextPoller :
              /\ plan.overlap \/ Active = {}
              /\ \/ BeginPoll(p, 1, FALSE) /\ UNCHANGED incidents
                 \/ \E b \in 1 .. MaxBlocks :
                        /\ incidents < plan.incidents /\ incidents' = incidents + 1
                        /\ \A c \in Contracts : b <= cursor[c].block + 1
                        /\ BeginPoll(p, b, TRUE)
    /\ UNCHANGED <<chainVars, streamVars, keyVars, disclosureVars>>

Next ==
    /\ UNCHANGED plan
    /\ \/ /\ Len(chain) < plan.blocks /\ MineBlock(plan.txs, rotations)
          /\ UNCHANGED <<indexerVars, streamVars, keyVars, disclosureVars, incidents>>
       \/ /\ forks < plan.reorgs /\ \E k \in 0 .. MaxBlocks : ReorganiseUnder(k)
          /\ UNCHANGED <<streamVars, keyVars, disclosureVars, incidents>>
       \/ IndexStep
       \/ /\ plan.stream /\ StreamStep
          /\ UNCHANGED <<chainVars, indexerVars, keyVars, disclosureVars, incidents>>
       \/ /\ \E r \in plan.rotations : RotationStep(r)
          /\ UNCHANGED <<chainVars, indexerVars, streamVars, disclosureVars, incidents>>
       \/ /\ \E q \in plan.reads : SelectRows(q, plan.kinds, plan.starts) \/ ReadStep(q)
          /\ UNCHANGED <<chainVars, indexerVars, streamVars, keyVars, incidents>>

(* The schedule polls again and again, and a poll that begins goes on.     *)
Others == <<chainVars, streamVars, keyVars, disclosureVars, plan, incidents>>
Fairness ==
    /\ \A p \in Pollers : WF_vars(PollStep(p) /\ UNCHANGED Others)
    /\ WF_vars(\E p \in NextPoller : Active = {} /\ BeginPoll(p, 1, FALSE) /\ UNCHANGED Others)

Spec == Init /\ [][Next]_vars
FairSpec == Spec /\ Fairness

TypeOK ==
    /\ IndexerTypeOK
    /\ streamCursor \in (0 .. MaxBlocks) \X (0 .. MaxLogs)
    /\ Range(sent) \subseteq (1 .. MaxBlocks) \X (1 .. MaxLogs)
    /\ {k.key : k \in keyRows} \subseteq Rotations
    /\ \A k, j \in keyRows : k.until = Never /\ j.until = Never => k = j
    /\ \A q \in Reads : read[q].kind \in Kinds /\ read[q].rows \subseteq [tx : Transfers, pos : (1 .. MaxBlocks) \X (1 .. MaxLogs), fork : 0 .. forks]

(* Together: the event table holds what its cursors vouch for, one row for *)
(* a log and one active key.                                               *)
IndexTrue == TypeOK /\ CursorVouches
=============================================================================
