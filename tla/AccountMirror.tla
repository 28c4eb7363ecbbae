---------------------------- MODULE AccountMirror ---------------------------
(* The account side of the indexer (src/indexer): a table mirrors the accounts *)
(* of a program.  A websocket tail delivers every write it sees, late or not   *)
(* at all, and never a close; a periodic reconcile takes a snapshot, upserts   *)
(* it and prunes what the snapshot does not hold.  The oracle program          *)
(* (oracle_accounts.rs) and the market program (reconcile.rs, market/db.rs)    *)
(* are mirrored by the same steps over different tables.                       *)
(*                                                                             *)
(* What an account holds is named by the slot it was written in; 0 is a closed *)
(* account.  A row is that, with the slot it is stamped with.                  *)
EXTENDS Naturals, FiniteSets

CONSTANTS
    Keys,          \* account addresses
    MaxSlot,       \* bound: slots that are observed
    MaxRestarts,   \* bound: how often the process is restarted
    MaxErrors      \* bound: how often a database statement fails

ASSUME MirrorAssumption == MaxSlot \in Nat /\ MaxRestarts \in Nat /\ MaxErrors \in Nat

VARIABLES
    slot,       \* the confirmed slot
    accounts,   \* the chain: per address, what the account holds
    rows,       \* the table: [slot, data] per address
    updates,    \* pipeline updates under way: [key, slot, data]
    reconcile,  \* the reconcile pass: [step, slot, todo, present, asOf]
    restarts, errors

mirror == <<slot, accounts, rows, updates, reconcile, restarts, errors>>

NoRow == [slot |-> 0, data |-> 0]
Resting == [step |-> "sleep", slot |-> 0, todo |-> {}, present |-> {},
            asOf |-> [k \in Keys |-> 0]]
Live == {k \in Keys : accounts[k] # 0}

MirrorInit ==
    /\ slot = 0
    /\ accounts = [k \in Keys |-> 0]
    /\ rows = [k \in Keys |-> NoRow]
    /\ updates = {}
    /\ reconcile = Resting
    /\ restarts = 0 /\ errors = 0

(* The chain: a slot writes some accounts and closes others; the tail is told *)
(* of the writes only.                                                        *)
Slot ==
    /\ slot < MaxSlot
    /\ slot' = slot + 1
    /\ \E written \in SUBSET Keys, closed \in SUBSET Live :
          /\ written \cap closed = {}
          /\ accounts' = [k \in Keys |-> IF k \in written THEN slot' ELSE
                                         IF k \in closed THEN 0 ELSE accounts[k]]
          /\ updates' = updates \cup {[key |-> k, slot |-> slot', data |-> slot'] : k \in written}
    /\ UNCHANGED <<rows, reconcile, restarts, errors>>

Error == errors < MaxErrors /\ errors' = errors + 1

(* upsert_account: insert, or update unless the row's slot is newer. *)
upsert_account_Ungated(table, k, s, data) == [table EXCEPT ![k] = [slot |-> s, data |-> data]]
upsert_account_InsertOnly(table, k, s, data) ==
    IF table[k] = NoRow THEN [table EXCEPT ![k] = [slot |-> s, data |-> data]] ELSE table
upsert_account(table, k, s, data) ==
    IF table[k].slot <= s THEN [table EXCEPT ![k] = [slot |-> s, data |-> data]] ELSE table

(* persist logs a failed upsert and goes on. *)
persist(k, s, data) ==
    \/ rows' = upsert_account(rows, k, s, data) /\ UNCHANGED errors
    \/ Error /\ UNCHANGED rows

(* The pipeline processes an update, in any order. *)
Deliver ==
    /\ \E u \in updates : updates' = updates \ {u} /\ persist(u.key, u.slot, u.data)
    /\ UNCHANGED <<slot, accounts, reconcile, restarts>>

(* The websocket drops an update, or the pipeline has exited. *)
Lose ==
    /\ \E u \in updates : updates' = updates \ {u}
    /\ UNCHANGED <<slot, accounts, rows, reconcile, restarts, errors>>

(* A restart forgets what was under way; the pipelines begin with a snapshot. *)
Restart ==
    /\ restarts < MaxRestarts
    /\ restarts' = restarts + 1
    /\ updates' = {[key |-> k, slot |-> slot, data |-> accounts[k]] : k \in Live}
    /\ reconcile' = Resting
    /\ UNCHANGED <<slot, accounts, rows, errors>>

-----------------------------------------------------------------------------
(* reconcile_once, one action per await: get_slot, get_program_accounts, the  *)
(* upserts, the prune.  An account is present although its upsert failed; a   *)
(* failed read or prune ends the pass.                                        *)
GetSlot ==
    /\ reconcile.step = "sleep"
    /\ reconcile' = [Resting EXCEPT !.step = "slot", !.slot = slot, !.asOf = accounts]
    /\ UNCHANGED <<slot, accounts, rows, updates, restarts, errors>>

GetProgramAccounts ==
    /\ reconcile.step = "slot"
    /\ \/ /\ reconcile' = [reconcile EXCEPT
                              !.step = "upsert", !.present = Live,
                              !.todo = {[key |-> k, data |-> accounts[k]] : k \in Live}]
          /\ UNCHANGED errors
       \/ reconcile' = Resting /\ Error
    /\ UNCHANGED <<slot, accounts, rows, updates, restarts>>

UpsertSnapshot ==
    /\ \E item \in reconcile.todo :
          /\ reconcile' = [reconcile EXCEPT !.todo = @ \ {item}]
          /\ persist(item.key, reconcile.slot, item.data)
    /\ UNCHANGED <<slot, accounts, updates, restarts>>

prune_AnySlot(table, snapshot_slot, present) ==
    [k \in Keys |-> IF k \notin present THEN NoRow ELSE table[k]]
prune(table, snapshot_slot, present) ==
    [k \in Keys |-> IF table[k].slot <= snapshot_slot /\ k \notin present THEN NoRow ELSE table[k]]

Prune ==
    /\ reconcile.step = "upsert" /\ reconcile.todo = {}
    /\ reconcile' = Resting
    /\ \/ rows' = prune(rows, reconcile.slot, reconcile.present) /\ UNCHANGED errors
       \/ Error /\ UNCHANGED rows
    /\ UNCHANGED <<slot, accounts, updates, restarts>>

MirrorNext ==
    \/ Slot \/ Deliver \/ Lose \/ Restart
    \/ GetSlot \/ GetProgramAccounts \/ UpsertSnapshot \/ Prune

(* An update is handled or lost in the end, and the reconcile loop goes on. *)
MirrorFairness ==
    /\ WF_mirror(Deliver \/ Lose)
    /\ WF_mirror(GetSlot) /\ WF_mirror(GetProgramAccounts) /\ WF_mirror(UpsertSnapshot) /\ WF_mirror(Prune)

MirrorSpec == MirrorInit /\ [][MirrorNext]_mirror /\ MirrorFairness

-----------------------------------------------------------------------------
(* Every variable holds a value of the kind the code gives it. *)
MirrorTypeOK ==
    /\ slot \in 0..MaxSlot
    /\ accounts \in [Keys -> 0..MaxSlot]
    /\ rows \in [Keys -> [slot : 0..MaxSlot, data : 0..MaxSlot]]
    /\ updates \in SUBSET [key : Keys, slot : 0..MaxSlot, data : 1..MaxSlot]
    /\ reconcile \in [step : {"sleep", "slot", "upsert"}, slot : 0..MaxSlot,
                      todo : SUBSET [key : Keys, data : 1..MaxSlot],
                      present : SUBSET Keys, asOf : [Keys -> 0..MaxSlot]]
    /\ restarts \in 0..MaxRestarts /\ errors \in 0..MaxErrors

(* A late update does not put an older state over a newer one, unless the row *)
(* was stamped by a snapshot, whose slot is read before the data and may be   *)
(* older than it.                                                             *)
RowsAdvance ==
    [][\A k \in Keys : rows'[k] = NoRow \/ rows'[k].data >= rows[k].data
                       \/ rows[k].slot < rows[k].data]_mirror

(* Pruning never removes the row that shows an account as it is: what is      *)
(* missing from the snapshot because it was created after it has a newer slot.*)
LiveRowsAreKept ==
    [][\A k \in Keys : rows'[k] = NoRow /\ rows[k] # NoRow => rows[k].data # accounts[k]]_mirror

(* After a pass whose statements all succeed, no row is older than the chain  *)
(* was when the pass began, however the tail interfered, and closed accounts  *)
(* have no row but one written since.                                         *)
PassesRefresh ==
    [][reconcile.step = "upsert" /\ reconcile' = Resting /\ errors = 0 /\ errors' = 0
          /\ restarts' = restarts
       => \A k \in Keys :
            IF k \in reconcile.present
            THEN rows'[k].data >= reconcile.asOf[k]
            ELSE rows'[k] = NoRow \/ rows'[k].slot > reconcile.slot]_mirror

(* Once the chain is quiet, the table becomes what the chain holds and stays  *)
(* so, whatever was lost, delayed, resurrected or overwritten before.         *)
Converges == <>[](\A k \in Keys : rows[k].data = accounts[k])
=============================================================================
