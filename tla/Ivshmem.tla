------------------------------- MODULE Ivshmem -------------------------------
(***************************************************************************)
(* How the VM program gets at the shared memory (lalah-vm/ivshmem.rs): it    *)
(* finds the device in a list, opens it, asks the driver for the size and    *)
(* for the mapping, and holds the handle, whose closing unmaps the region,   *)
(* until the region is dropped.  Any call may fail.                          *)
(*                                                                         *)
(*   list - enum - detail - open - size - mmap - mapped - dropped            *)
(*      \______\_______\______\______\______\_______________ failed          *)
(***************************************************************************)

VARIABLES
  rpc,      (* map_ivshmem: control state                                    *)
  devices,  (* is there a device information list?                           *)
  handle    (* is there an open handle on the device?                        *)

rvars == <<rpc, devices, handle>>

Init == rpc = "list" /\ devices = FALSE /\ handle = FALSE

-----------------------------------------------------------------------------
(* SetupDiGetClassDevs makes the list.                                       *)
GetClassDevs ==
  /\ rpc = "list"
  /\ \/ rpc' = "enum" /\ devices' = TRUE
     \/ rpc' = "failed" /\ UNCHANGED devices
  /\ UNCHANGED handle

(* The first interface and its path; without them the list is destroyed.     *)
Find ==
  /\ rpc \in {"enum", "detail"}
  /\ \/ rpc' = (IF rpc = "enum" THEN "detail" ELSE "open") /\ UNCHANGED devices
     \/ rpc' = "failed" /\ devices' = FALSE
  /\ UNCHANGED handle

(* CreateFile; the list is destroyed before its result is looked at.         *)
Open ==
  /\ rpc = "open"
  /\ devices' = FALSE
  /\ \/ rpc' = "size" /\ handle' = TRUE
     \/ rpc' = "failed" /\ UNCHANGED handle

(* The two requests to the driver.  One that fails leaves the handle to the  *)
(* end of the process: there is no region yet whose drop would close it.     *)
Request ==
  /\ rpc \in {"size", "mmap"}
  /\ \/ rpc' = (IF rpc = "size" THEN "mmap" ELSE "mapped")
     \/ rpc' = "failed"
  /\ UNCHANGED <<devices, handle>>

Map == GetClassDevs \/ Find \/ Open \/ Request

(* The region is dropped.                                                    *)
Drop ==
  /\ rpc = "mapped"
  /\ rpc' = "dropped" /\ handle' = FALSE
  /\ UNCHANGED devices

-----------------------------------------------------------------------------
TypeOK ==
  /\ rpc \in {"list", "enum", "detail", "open", "size", "mmap", "mapped", "dropped", "failed"}
  /\ devices \in BOOLEAN /\ handle \in BOOLEAN

(* Whatever failed, the list is gone, and with a region the handle.          *)
LeavesNoList == rpc \in {"mapped", "dropped", "failed"} => ~ devices
HoldsHandle  == (rpc = "mapped" => handle) /\ (rpc = "dropped" => ~ handle)

=============================================================================
