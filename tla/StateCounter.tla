----------------------------- MODULE StateCounter -----------------------------
(***************************************************************************)
(* Reference counts of the table entries the telemetry service keeps on    *)
(* the switches (kinda-sdn/telemetry/counter.go).  An entry several        *)
(* intents need is written by the first and deleted by the last.           *)
(*                                                                         *)
(* A table stands for one StateCounter on one device: its lock is held     *)
(* while the runnable talks to the device, so an increment or a decrement  *)
(* is one action, device call included.  tableState holds no entry with a  *)
(* zero counter: counter[e] = 0 stands for "no such key".                  *)
(*                                                                         *)
(* The device is external (kinda-sdn/device, a P4Runtime switch): a write  *)
(* of an entry it has and a delete of one it lacks fail; besides, a call   *)
(* may be refused, or be applied and time out (ENTRY_CONFIG_TIMEOUT), at   *)
(* most MaxFailures times in a behaviour.                                  *)
(***************************************************************************)
EXTENDS Integers, FiniteSets

CONSTANTS
    Entry,          \* the table entries, of all tables
    Table,          \* the tables, one per state counter and device
    TableOf,        \* entry -> its table
    FailureKinds,   \* how a device call may fail: "refused", "timeout"
    MaxFailures     \* bound on the number of failing calls

ASSUME CounterAssumption ==
    /\ TableOf \in [Entry -> Table]
    /\ FailureKinds \subseteq {"refused", "timeout"}
    /\ MaxFailures \in Nat

VARIABLES
    counter,        \* entry -> its reference count
    numEntries,     \* table -> the number of entries it is believed to hold
    installed,      \* the entries present on the devices
    failures        \* failing calls so far

counterVars == <<counter, numEntries, installed, failures>>

CounterInit ==
    /\ counter = [e \in Entry |-> 0]
    /\ numEntries = [t \in Table |-> 0]
    /\ installed = {}
    /\ failures = 0
-----------------------------------------------------------------------------
(* The device *)

\* A failing call has no effect, or its effect and a lost answer.
Fails(effect) ==
    /\ failures < MaxFailures
    /\ failures' = failures + 1
    /\ \/ "refused" \in FailureKinds /\ UNCHANGED installed
       \/ "timeout" \in FailureKinds /\ effect

WriteEntry(e, ok) ==
    \/ ok /\ e \notin installed /\ installed' = installed \cup {e} /\ UNCHANGED failures
    \/ ~ok /\ e \in installed /\ UNCHANGED <<installed, failures>>
    \/ ~ok /\ e \notin installed /\ Fails(installed' = installed \cup {e})

DeleteEntry(e, ok) ==
    \/ ok /\ e \in installed /\ installed' = installed \ {e} /\ UNCHANGED failures
    \/ ~ok /\ e \notin installed /\ UNCHANGED <<installed, failures>>
    \/ ~ok /\ e \in installed /\ Fails(installed' = installed \ {e})
-----------------------------------------------------------------------------
(* The counter *)

\* Mutant: a key whose write failed is counted.
Increment_CountsFailed(e, ok) ==
    IF counter[e] = 0
    THEN /\ WriteEntry(e, ok)
         /\ numEntries' = [numEntries EXCEPT ![TableOf[e]] = @ + 1]
         /\ counter' = [counter EXCEPT ![e] = 1]
    ELSE /\ ok
         /\ counter' = [counter EXCEPT ![e] = @ + 1]
         /\ UNCHANGED <<numEntries, installed, failures>>

\* Mutant: numEntries counts a key when its write has been confirmed only.
Increment_CountsConfirmed(e, ok) ==
    IF counter[e] = 0
    THEN /\ WriteEntry(e, ok)
         /\ numEntries' = IF ok THEN [numEntries EXCEPT ![TableOf[e]] = @ + 1] ELSE numEntries
         /\ counter' = IF ok THEN [counter EXCEPT ![e] = 1] ELSE counter
    ELSE /\ ok
         /\ counter' = [counter EXCEPT ![e] = @ + 1]
         /\ UNCHANGED <<numEntries, installed, failures>>

\* IncrementAndRunOnTransitionToOne: numEntries counts the key as soon as it is
\* missing from the table, before the device has been asked.
Increment(e, ok) ==
    IF counter[e] = 0
    THEN /\ WriteEntry(e, ok)
         /\ numEntries' = [numEntries EXCEPT ![TableOf[e]] = @ + 1]
         /\ counter' = IF ok THEN [counter EXCEPT ![e] = 1] ELSE counter
    ELSE /\ ok
         /\ counter' = [counter EXCEPT ![e] = @ + 1]
         /\ UNCHANGED <<numEntries, installed, failures>>

\* Mutant: numEntries is not counted down.
Decrement_NotCounted(e, ok) ==
    CASE counter[e] = 0 ->
            ~ok /\ UNCHANGED <<counter, numEntries, installed, failures>>
      [] counter[e] = 1 ->
            /\ DeleteEntry(e, ok)
            /\ counter' = IF ok THEN [counter EXCEPT ![e] = 0] ELSE counter
            /\ UNCHANGED numEntries
      [] OTHER ->
            /\ ok
            /\ counter' = [counter EXCEPT ![e] = @ - 1]
            /\ UNCHANGED <<numEntries, installed, failures>>

\* DecrementAndRunOnTransitionToZero
Decrement(e, ok) ==
    CASE counter[e] = 0 ->
            ~ok /\ UNCHANGED <<counter, numEntries, installed, failures>>
      [] counter[e] = 1 ->
            /\ DeleteEntry(e, ok)
            /\ counter' = IF ok THEN [counter EXCEPT ![e] = 0] ELSE counter
            /\ numEntries' = IF ok THEN [numEntries EXCEPT ![TableOf[e]] = @ - 1] ELSE numEntries
      [] OTHER ->
            /\ ok
            /\ counter' = [counter EXCEPT ![e] = @ - 1]
            /\ UNCHANGED <<numEntries, installed, failures>>
-----------------------------------------------------------------------------
CounterNext == \E e \in Entry, ok \in BOOLEAN : Increment(e, ok) \/ Decrement(e, ok)

CounterSpec == CounterInit /\ [][CounterNext]_counterVars

\* Types: a table is never believed to hold less than nothing, though failed
\* and repeated calls count it up and down.
CounterTypeOK ==
    /\ counter \in [Entry -> Nat]
    /\ numEntries \in [Table -> Nat]
    /\ installed \subseteq Entry
    /\ failures \in 0 .. MaxFailures

HeldBy(t) == {e \in installed : TableOf[e] = t}

\* A table never holds more than it is believed to, whatever fails and however
\* often it is tried again: clients are never told of capacity a switch does not
\* have (TakePerDeviceNumberOfEntriesSnapshot, service.go:394-404).
CapacityIsNeverOverstated == \A t \in Table : Cardinality(HeldBy(t)) <= numEntries[t]

\* A device holds an entry exactly when somebody needs it: nothing is left
\* behind and nothing is missing, although calls are refused.  (A call that is
\* applied and times out breaks it for good: counter.go:77-81 and 103-106.)
InstalledIffCounted == installed = {e \in Entry : counter[e] > 0}
=============================================================================
