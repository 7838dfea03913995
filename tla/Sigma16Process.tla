--------------------------- MODULE Sigma16Process ----------------------------
(***************************************************************************)
(* The command sigma16-emu from main to its end, in the two builds that    *)
(* config.h selects: exec_normal over the interpreter, exec_debugger over  *)
(* the debugger, with every failure on the way.                            *)
(***************************************************************************)
EXTENDS Sigma16Debugger, Sigma16Lifecycle

VARIABLES
  build,    \* "normal" or "debugger": ENABLE_DEBUGGER
  stage,    \* "main", "exec" (in sigma16_vm_exec) or "ended"
  vm,       \* what the pointer to the machine points to
  exit,     \* "none", "success", "failure" or "signal"
  message   \* the error message printed last

processVars == <<build, stage, vm, exit, message>>
allVars == <<vars, processVars>>

ProcessInit ==
  /\ DebuggerInit
  /\ build \in {"normal", "debugger"}
  /\ stage = "main"
  /\ vm = "null"
  /\ exit = "none"
  /\ message = "none"

ProcessTypeOK ==
  /\ DebuggerTypeOK
  /\ build \in {"normal", "debugger"}
  /\ stage \in {"main", "exec", "ended"}
  /\ vm \in Pointee
  /\ exit \in {"none", "success", "failure", "signal"}
  /\ message \in {"none", "usage", "failed to initialise vm",
                  "unable to initialise debugger",
                  "an error occured during execution"}

-----------------------------------------------------------------------------
End(e, m) == stage' = "ended" /\ exit' = e /\ message' = m

(* argc < 2 *)
main_usage ==
  /\ stage = "main"
  /\ End("failure", "usage")
  /\ UNCHANGED <<vars, build, vm>>

exec_normal_init ==
  /\ stage = "main" /\ build = "normal"
  /\ \E o \in sigma16_vm_init :
       /\ vm' = o.vm
       /\ IF o.result < 0
            THEN End("failure", "failed to initialise vm")
            ELSE stage' = "exec" /\ UNCHANGED <<exit, message>>
  /\ UNCHANGED <<vars, build>>

(* The context has no memory, or is set up. *)
debugger_init ==
  /\ stage = "main" /\ build = "debugger"
  /\ \/ End("failure", "unable to initialise debugger") /\ UNCHANGED vm
     \/ vm' = "ready" /\ stage' = "exec" /\ UNCHANGED <<exit, message>>
  /\ UNCHANGED <<vars, build>>

(* The machine that failed is known to a local variable only: the teardown *)
(* deletes ctx->vm, which has no value yet.  It may survive that.          *)
debugger_teardown ==
  /\ stage = "main" /\ build = "debugger"
  /\ \E o \in sigma16_vm_init : o.result < 0 /\ vm' = o.vm
  /\ \/ End("signal", "none")
     \/ End("failure", "unable to initialise debugger")
  /\ UNCHANGED <<vars, build>>

(* sigma16_vm_exec, with the trace handler of the build. *)
Execution ==
  /\ stage = "exec"
  /\ \/ /\ build = "normal"
        /\ sigma16_vm_exec \/ sigma16_trace
        /\ UNCHANGED <<ctxVars, historyVars>>
     \/ /\ build = "debugger"
        /\ Interpret \/ yield_debugger \/ Command
  /\ UNCHANGED processVars

(* Mutant: the path of the error falls into the normal one. *)
exec_normal_done_falls_through ==
  /\ stage = "exec" /\ build = "normal" /\ phase \in {"halted", "error"}
  /\ vm' \in sigma16_vm_del(vm)
  /\ End("success", message)
  /\ UNCHANGED <<vars, build>>

(* Mutant: the path of the error returns at once. *)
exec_normal_done_returns ==
  /\ stage = "exec" /\ build = "normal" /\ phase \in {"halted", "error"}
  /\ IF phase = "halted"
       THEN vm' \in sigma16_vm_del(vm) /\ End("success", message)
       ELSE UNCHANGED vm /\ End("failure", "an error occured during execution")
  /\ UNCHANGED <<vars, build>>

exec_normal_done ==
  /\ stage = "exec" /\ build = "normal" /\ phase \in {"halted", "error"}
  /\ vm' \in sigma16_vm_del(vm)
  /\ IF phase = "halted"
       THEN End("success", message)
       ELSE End("failure", "an error occured during execution")
  /\ UNCHANGED <<vars, build>>

(* Mutant: after an error the program is started again. *)
exec_debugger_done_restarts ==
  /\ stage = "exec" /\ build = "debugger" /\ phase \in {"halted", "error"}
  /\ IF phase = "halted"
       THEN End("success", message) /\ UNCHANGED <<phase, label>>
       ELSE /\ phase' = "handler" /\ label' = "exec_start"
            /\ UNCHANGED <<stage, exit, message>>
  /\ UNCHANGED <<regs, ir, pc, adr, mem, stdout, ctxVars, historyVars, build, vm>>

exec_debugger_done ==
  /\ stage = "exec" /\ build = "debugger" /\ phase \in {"halted", "error"}
  /\ IF phase = "halted"
       THEN End("success", message)
       ELSE End("failure", "an error occured during execution")
  /\ UNCHANGED <<vars, build, vm>>

(* The process ends inside sigma16_vm_exec: exit(0), abort() or a fault. *)
Dies ==
  /\ stage = "exec" /\ phase \in {"exited", "aborted", "crashed"}
  /\ End(IF phase = "exited" THEN "success" ELSE "signal", message)
  /\ UNCHANGED <<vars, build, vm>>

ProcessEnded == stage = "ended" /\ UNCHANGED allVars

ProcessNext ==
  \/ main_usage \/ exec_normal_init \/ debugger_init \/ debugger_teardown
  \/ Execution \/ exec_normal_done \/ exec_debugger_done \/ Dies
  \/ ProcessEnded

ProcessSpec == ProcessInit /\ [][ProcessNext]_allVars

(***************************************************************************)
(* One thread, which waits for nothing but the user at a prompt.           *)
(***************************************************************************)
FairProcessSpec ==
  /\ ProcessSpec
  /\ WF_allVars(Execution /\ ~Prompting)
  /\ WF_allVars(exec_normal_done \/ exec_debugger_done \/ Dies)

-----------------------------------------------------------------------------
(***************************************************************************)
(* The exit status tells what became of the program: success when it       *)
(* reached its halt or the user left the debugger, failure with a message  *)
(* when it met an illegal instruction or was never started (main.c:12-77   *)
(* with the results of sigma16_vm_exec).  A signal comes from the program, *)
(* from the handler it called or, before any instruction, from the         *)
(* teardown of a debugger that has no machine (debugger.c:611, 618).       *)
(***************************************************************************)
Unstarted == phase = "handler" /\ label = "exec_start" /\ at = "entry"

ExitStatus ==
  stage = "ended" =>
    /\ (exit = "success") => (isaStatus = "halted" \/ phase = "exited")
    /\ (exit = "failure") => message # "none"
    /\ (exit = "failure") => (isaStatus = "error" \/ Unstarted)
    /\ (exit = "signal") => \/ phase \in {"aborted", "crashed"}
                            \/ Unstarted /\ build = "debugger" /\ vm # "ready"

(***************************************************************************)
(* A program that reaches its halt makes the command succeed, if no        *)
(* debugger asks in between, and an illegal instruction makes it fail      *)
(* (vm.c:339-348, main.c:20, 40).                                          *)
(***************************************************************************)
OutcomeReported ==
  /\ (build = "normal" /\ isaStatus = "halted") ~> (exit = "success")
  /\ isaStatus = "error" ~> exit = "failure"

(***************************************************************************)
(* A normal run that ends by itself has released its memory, whether it    *)
(* succeeds or fails, with one exception: the struct allocated for an      *)
(* executable that does not open is lost (vm.c:71-79, main.c:31-57).       *)
(***************************************************************************)
EndReleases ==
  build = "normal" /\ exit \in {"success", "failure"} =>
    \/ vm \in {"null", "freed"}
    \/ vm = "struct" /\ message = "failed to initialise vm"
=============================================================================
