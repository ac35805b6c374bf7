------------------------------- MODULE Startup -------------------------------
(***************************************************************************)
(* What the programs of src/src do before their fibers run: five::Program  *)
(* reads the configuration (program.h, config.h), the process is tied to   *)
(* CPUs (linux.cc), and the clients build the payload they send.           *)
(***************************************************************************)
EXTENDS Integers

CONSTANTS
  Fields,           (* The fields of a program's config that are values.   *)
  AddressFields,    (* The fields of its server, which is a table.         *)
  Values,           (* The values of a field's type: string or int64_t.    *)
  Mistyped          (* What else a file may hold in its place.             *)

-----------------------------------------------------------------------------
(* config.h.  A toml::table is a function from the names it contains.      *)

Config == [fields : [Fields -> Values], server : [AddressFields -> Values]]

(* What a field may hold after load: its default if the table does not     *)
(* contain it; an optional without a value, which load dereferences, if    *)
(* the value there is of another type.                                     *)
Loaded(tbl, name, default) ==
  IF name \notin DOMAIN tbl THEN {default}
  ELSE IF tbl[name] \in Values THEN {tbl[name]}
  ELSE Values

LoadFields(tbl, default) ==
  {c \in [DOMAIN default -> Values] :
     \A name \in DOMAIN default : c[name] \in Loaded(tbl, name, default[name])}

(* The configs that loading a file may leave; a server that is missing or  *)
(* no table is passed over.                                                *)
Load(file, default) ==
  {c \in Config :
     /\ c.fields \in LoadFields(file.fields, default.fields)
     /\ IF file.server \in Mistyped
        THEN c.server = default.server
        ELSE c.server \in LoadFields(file.server, default.server)}

(* What print makes of a config: a table with every field.                 *)
Save(c) == [fields |-> c.fields, server |-> c.server]

(* A table in which every field that is present has its type.              *)
WellTyped(tbl) == \A name \in DOMAIN tbl : tbl[name] \in Values

-----------------------------------------------------------------------------
(* program.h and linux.cc.                                                 *)

(* What SetupAndRun comes to: argc is verified outside the try block; a    *)
(* file that cannot be read and an exception of Run end in status 1.       *)
SetupAndRun(argc, parsed, status) ==
  IF argc # 2 THEN "argc should be 2"
  ELSE IF ~parsed \/ status = "throws" THEN 1
  ELSE status

(* set_affinity: a mask is the set of its bits, of which the loop looks at *)
(* sizeof(mask).  The call fails if none is a CPU, and the program goes on *)
(* where it was.                                                           *)
SizeofMask == 8

CpuSet(mask) == {i \in 0 .. SizeofMask - 1 : i \in mask}

AffinityAfter(mask, cpus, before) ==
  IF CpuSet(mask) \cap cpus = {} THEN before ELSE CpuSet(mask) \cap cpus

-----------------------------------------------------------------------------
(* The payloads.  infallible_udp appends data_to_send, of n bytes, while   *)
(* the payload is shorter than data_len; cli doubles it ten times.         *)

SizeAfter(n, rounds) == n * (rounds + 1)

PaddedAfter(n, data_len, rounds) ==
  /\ SizeAfter(n, rounds) >= data_len
  /\ \A k \in 0 .. rounds - 1 : SizeAfter(n, k) < data_len

DoubledTen(n) == n * 1024

(* What a server with a buffer of 65000 bytes can double (srv2.cc:118).    *)
FitsServer(size) == size * 2 < 65000

=============================================================================
