----------------------------- MODULE MC_SysSet ------------------------------
(***************************************************************************)
(* Model-checking instance of SysSet.  Layouts: the usual one, one whose  *)
(* boot manager starts at offset 0 (so a vector alignment below 32 makes  *)
(* its shifted offset negative), and one without the END macro; vector   *)
(* alignments below, at and above the 32-byte header; two version pairs. *)
(* The output file holds nothing yet or an earlier build's sector.        *)
(***************************************************************************)
EXTENDS SysSet

MC_Layouts ==
    { [SYS_SET |-> 0, SYS_STATUS |-> 4096, MBL |-> 12288, IMG_0 |-> 131072,
       IMG_1 |-> 1048576, END |-> 4194304],
      [SYS_SET |-> 8192, SYS_STATUS |-> 12288, MBL |-> 0, IMG_0 |-> 65536,
       IMG_1 |-> 524288, END |-> 2097152],
      [SYS_SET |-> 0, SYS_STATUS |-> 4096, MBL |-> 12288, IMG_0 |-> 131072,
       IMG_1 |-> 1048576] }

\* 0x01000000, 0x01020003 and 0x00010000
MC_Configs ==
    { [vtor_align |-> v, offsets |-> o, mbl_ver |-> m, img_ver |-> i] :
        v \in {16, 32, 256, 512}, o \in MC_Layouts,
        m \in {16777216, 16908291}, i \in {65536, 16908291} }

MC_RunTypes == {"SYS_SET", "SYS_STATUS", "MBL"}

MC_OldFiles == {[bytes |-> <<>>, fill |-> 0], [bytes |-> <<71, 68, 51, 50>>, fill |-> 4092]}

=============================================================================
