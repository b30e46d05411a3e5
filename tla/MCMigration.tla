----------------------------- MODULE MCMigration -----------------------------
(* Instances of Migration for TLC. *)
EXTENDS Migration

CONSTANTS p1, p2, a, b, new

NewThread == [y \in Ctx |-> IF y = new THEN Off ELSE IF y = a THEN p1 ELSE p2]

\* new is started and migrates itself, b waits for it while it is moved, too
Moves == {<<"migrate", a, new>>, <<"migrate", new, new>>, <<"migrate", a, b>>,
          <<"drq", b, new>>, <<"wake", b, new>>, <<"wait", new, new>>, <<"kill", new, new>>}

\* new exits when others want to move it
Exits == {<<"migrate", a, new>>, <<"migrate", b, new>>, <<"wake", b, new>>, <<"kill", new, new>>}
=============================================================================
