---------------------------- MODULE IndexRestore ----------------------------
(***************************************************************************)
(* IndexFreshness where a removed file may come back with the size and mtime *)
(* it had, so that its version is not a new one.                            *)
(***************************************************************************)
EXTENDS IndexFreshness

VARIABLE removed    \* the last version of each removed file

RestoringInit == Init /\ removed = Nothing

RememberRemoved ==
    removed' = [f \in Files |-> IF disk'[f] = Absent /\ disk[f] # Absent THEN disk[f]
                                                                      ELSE removed[f]]

(* mv out and back, rsync -a, a backup. *)
Restore(f) ==
    /\ disk[f] = Absent /\ removed[f] # Absent
    /\ disk' = [disk EXCEPT ![f] = removed[f]]
    /\ UNCHANGED <<db, work, holder, pc, todo, view, seen, reading, counters, removed>>

RestoringNext == (Next /\ RememberRemoved) \/ \E f \in Files : Restore(f)

RestoringSpec == RestoringInit /\ [][RestoringNext]_<<vars, removed>>

=============================================================================
