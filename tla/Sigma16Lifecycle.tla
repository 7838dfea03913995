-------------------------- MODULE Sigma16Lifecycle ---------------------------
(***************************************************************************)
(* Creation and release of a virtual machine (sigma16_vm_init and          *)
(* sigma16_vm_del in vm.c), with every failure of the calls they make.     *)
(***************************************************************************)
EXTENDS Integers

(* What a sigma16_vm_t* can point to: nothing, a struct without memory, a  *)
(* machine that is ready, memory given back, or anything at all.           *)
Pointee == {"null", "struct", "ready", "freed", "wild"}

(* The outcomes of sigma16_vm_init: its result and the caller's pointer.   *)
(* Only calloc, fopen and mmap are checked.  A struct whose file does not  *)
(* open is kept; one that gets no mapping is given back, and the pointer   *)
(* to it stays with the caller.                                            *)
sigma16_vm_init ==
  { [result |-> -1, vm |-> "null"],      \* calloc
    [result |-> -1, vm |-> "struct"],    \* fopen
    [result |-> -1, vm |-> "freed"],     \* mmap
    [result |-> 0,  vm |-> "ready"] }

(* sigma16_vm_del(p) unmaps p->mem: sound only on a machine that is ready, *)
(* or on a struct, whose null mem munmap refuses.                          *)
sigma16_vm_del(p) == IF p \in {"ready", "struct"} THEN {"freed"} ELSE {}
=============================================================================
