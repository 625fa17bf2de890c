------------------------------ MODULE LocalStack ------------------------------
(***************************************************************************)
(* scripts/generate-exit-key.ts and scripts/local-stack.ts on one machine:  *)
(* processes that share the two key files and the ports of the services,    *)
(* and know nothing of one another.  A process is a local stack, a keygen,  *)
(* or a keygen with --force, and may be killed between any two of its       *)
(* system calls.  A stack hands the keys it read to its Exit and Sidecar,   *)
(* and leaves their supervision to the library `concurrently`.              *)
(* Some names carry a prefix, so that SealedExchangeProofs can extend this  *)
(* module together with SealedExchange.                                    *)
(***************************************************************************)
EXTENDS Naturals

CONSTANTS
  Processes,
  ProcessKinds,  \* the kinds of process that may run together
  Services,      \* of a stack, "exit" and "sidecar" among them
  Old            \* the key pair that may be there from an earlier run

ASSUME ProcessesAssumption ==
  /\ ProcessKinds \subseteq [Processes -> {"stack", "keygen", "force", "none"}]
  /\ {"exit", "sidecar"} \subseteq Services
  /\ Old \notin Processes

\* A pair's name is not the mark of a missing file.
ASSUME NamesAssumption == "absent" \notin Processes

VARIABLES
  kind,     \* of each process, "none" if it does not run
  file,     \* the content of each key file; a pair is named by who generated it
  place,    \* the next system call of each process
  held,     \* the keys a stack has read
  service,  \* the services of each stack
  result,   \* what runLocalStack returned
  forcedCut,   \* history: a forced replacement was killed half-way
  overlapped   \* history: two processes were at the key files together

keyVars == <<kind, file, held>>
stackVars == <<service, result>>
historyVars == <<forcedCut, overlapped>>
localVars == <<keyVars, place, stackVars, historyVars>>

Files == {"private", "public"}
Absent == "absent"
Empty == "empty"

LocalInit ==
  /\ \E content \in {Absent, Old} : file = [f \in Files |-> content]
  /\ kind \in ProcessKinds
  /\ place = [p \in Processes |->
       CASE kind[p] = "stack" -> "findPrivate"
         [] kind[p] = "keygen" -> "checkPrivate"
         [] kind[p] = "force" -> "openPrivate"
         [] kind[p] = "none" -> "done"]
  /\ held = [p \in Processes |-> [f \in Files |-> Absent]]
  /\ service = [p \in Processes |-> [s \in Services |-> "off"]]
  /\ result = [p \in Processes |-> "none"]
  /\ forcedCut = FALSE /\ overlapped = FALSE
-----------------------------------------------------------------------------
(* Two processes collide when both are past the check that there are no keys *)
(* and not yet done writing them, or when the keys are replaced by force     *)
(* while a stack is between reading the one and the other.                   *)

WritingIn(at, p) ==
  \/ at[p] \in {"writePrivate", "openPublic", "writePublic"}
  \/ at[p] = "openPrivate" /\ kind[p] # "force"

CollideIn(at) ==
  \E p, q \in Processes :
    /\ p # q /\ WritingIn(at, p)
    /\ \/ WritingIn(at, q)
       \/ kind[p] = "force" /\ at[q] = "readPublic"

Goto(p, next) ==
  /\ place' = [place EXCEPT ![p] = next]
  /\ overlapped' = (overlapped \/ CollideIn(place'))
-----------------------------------------------------------------------------
(* generateExitKeyFiles: the check, then writeFileSync twice, each of which  *)
(* first truncates or creates its file.  An error ends the process.          *)

\* Faulty: replaces the keys whether or not it was told to.
CheckNothing(p) ==
  /\ place[p] = "checkPrivate"
  /\ Goto(p, "openPrivate")
  /\ UNCHANGED <<keyVars, stackVars, forcedCut>>

CheckPrivate(p) ==
  /\ place[p] = "checkPrivate"
  /\ Goto(p, IF file["private"] # Absent THEN "failed" ELSE "checkPublic")
  /\ UNCHANGED <<keyVars, stackVars, forcedCut>>

CheckPublic(p) ==
  /\ place[p] = "checkPublic"
  /\ Goto(p, IF file["public"] # Absent THEN "failed" ELSE "openPrivate")
  /\ UNCHANGED <<keyVars, stackVars, forcedCut>>

SetFile(p, from, f, content, to) ==
  /\ place[p] = from
  /\ file' = [file EXCEPT ![f] = content]
  /\ Goto(p, to)
  /\ UNCHANGED <<kind, held, stackVars, forcedCut>>

WriteKeys(p) ==
  \/ SetFile(p, "openPrivate", "private", Empty, "writePrivate")
  \/ SetFile(p, "writePrivate", "private", p, "openPublic")
  \/ SetFile(p, "openPublic", "public", Empty, "writePublic")
  \/ SetFile(p, "writePublic", "public", p,
             IF kind[p] = "stack" THEN "readPrivate" ELSE "done")

\* readKeys of a stack: both files are there, or neither, or it refuses.
FindPrivate(p) ==
  /\ place[p] = "findPrivate"
  /\ Goto(p, IF file["private"] = Absent THEN "findNoPublic" ELSE "findPublic")
  /\ UNCHANGED <<keyVars, stackVars, forcedCut>>

FindPublic(p) ==
  /\ \/ place[p] = "findPublic"
        /\ Goto(p, IF file["public"] = Absent THEN "failed" ELSE "readPrivate")
     \/ place[p] = "findNoPublic"
        /\ Goto(p, IF file["public"] = Absent THEN "checkPrivate" ELSE "failed")
  /\ UNCHANGED <<keyVars, stackVars, forcedCut>>

ReadKey(p, from, f, to) ==
  /\ place[p] = from
  /\ held' = [held EXCEPT ![p][f] = file[f]]
  /\ Goto(p, to)
  /\ UNCHANGED <<kind, file, stackVars, forcedCut>>

ReadKeys(p) ==
  \/ ReadKey(p, "readPrivate", "private", "readPublic")
  \/ ReadKey(p, "readPublic", "public", "launch")
-----------------------------------------------------------------------------
(* runLocalStack: all services are started at once, and killed once one has  *)
(* failed; the stack waits for all of them.                                 *)

Launch(p) ==
  /\ place[p] = "launch"
  /\ service' = [service EXCEPT ![p] = [s \in Services |-> "starting"]]
  /\ Goto(p, "supervise")
  /\ UNCHANGED <<keyVars, result, forcedCut>>

SetService(p, s, new) ==
  /\ service' = [service EXCEPT ![p][s] = new]
  /\ UNCHANGED <<keyVars, place, result, historyVars>>

\* An empty key is no key, and every stack has the same ports.
CanServe(p, s) ==
  /\ s = "exit" => held[p]["private"] # Empty
  /\ s = "sidecar" => held[p]["public"] # Empty
  /\ \A q \in Processes : service[q][s] # "running"

Start(p, s) ==
  /\ service[p][s] = "starting"
  /\ SetService(p, s, IF CanServe(p, s) THEN "running" ELSE "failed")

\* A running service is stopped by its user, or fails.
Ends(p, s) ==
  /\ service[p][s] = "running"
  /\ \E how \in {"stopped", "failed"} : SetService(p, s, how)

Failing(p) == \E s \in Services : service[p][s] = "failed"

\* Faulty: kills the others once one has ended well.
KillOnSuccess(p, s) ==
  /\ place[p] = "supervise" /\ \E t \in Services : service[p][t] = "stopped"
  /\ service[p][s] \in {"starting", "running"}
  /\ SetService(p, s, "killed")

KillOther(p, s) ==
  /\ place[p] = "supervise" /\ Failing(p)
  /\ service[p][s] \in {"starting", "running"}
  /\ SetService(p, s, "killed")

AllOver(p) == \A s \in Services : service[p][s] \in {"stopped", "failed", "killed"}

Return(p) ==
  /\ place[p] = "supervise" /\ AllOver(p)
  /\ result' = [result EXCEPT ![p] = IF Failing(p) THEN "1" ELSE "0"]
  /\ Goto(p, "done")
  /\ UNCHANGED <<keyVars, service, forcedCut>>

\* A process is killed; a stack's services are not.
Crash(p) ==
  /\ place[p] \notin {"done", "failed", "crashed"}
  /\ forcedCut' = (forcedCut \/ (kind[p] = "force" /\ WritingIn(place, p)))
  /\ Goto(p, "crashed")
  /\ UNCHANGED <<keyVars, stackVars>>
-----------------------------------------------------------------------------
Supervise(p) == Return(p) \/ \E s \in Services : KillOther(p, s)

Step(p) ==
  \/ CheckPrivate(p) \/ CheckPublic(p) \/ WriteKeys(p)
  \/ FindPrivate(p) \/ FindPublic(p) \/ ReadKeys(p)
  \/ Launch(p) \/ Crash(p) \/ Supervise(p)
  \/ \E s \in Services : Start(p, s) \/ Ends(p, s)

LocalNext == \E p \in Processes : Step(p)

LocalSpec == LocalInit /\ [][LocalNext]_localVars

\* The library kills what it has to, in the end with SIGKILL, and then resolves.
FairLocalSpec == LocalSpec /\ \A p \in Processes : WF_localVars(Supervise(p))
-----------------------------------------------------------------------------
Places ==
  {"checkPrivate", "checkPublic", "openPrivate", "writePrivate", "openPublic", "writePublic",
   "findPrivate", "findPublic", "findNoPublic", "readPrivate", "readPublic",
   "launch", "supervise", "done", "failed", "crashed"}

LocalTypeOK ==
  /\ kind \in ProcessKinds
  /\ file \in [Files -> {Absent, Empty, Old} \cup Processes]
  /\ place \in [Processes -> Places]
  /\ held \in [Processes -> [Files -> {Absent, Empty, Old} \cup Processes]]
  /\ service \in [Processes -> [Services ->
       {"off", "starting", "running", "stopped", "failed", "killed"}]]
  /\ result \in [Processes -> {"none", "0", "1"}]
  /\ {forcedCut, overlapped} \subseteq BOOLEAN

(***************************************************************************)
(* A stack whose Exit and Sidecar both serve gave them two halves of one    *)
(* pair, whenever processes were killed and whatever was left in the        *)
(* directory, unless a replacement by force was killed half-way or two      *)
(* processes collided at the files.  In particular a stack may start while  *)
(* another process generates the first pair.                               *)
(***************************************************************************)
ServesOnePair ==
  \A p \in Processes :
    service[p]["exit"] = "running" /\ service[p]["sidecar"] = "running" =>
      held[p]["private"] = held[p]["public"] \/ forcedCut \/ overlapped

\* Once a service has failed the others end too, and the stack returns 1,
\* unless the stack itself is killed first.
FailureStopsStack ==
  \A p \in Processes :
    Failing(p) ~> (AllOver(p) /\ result[p] = "1") \/ place[p] = "crashed"
=============================================================================
