----------------------------- MODULE MC_AesTool -----------------------------
(***************************************************************************)
(* Model-checking instance of AesTool.  The flash layout has the regions   *)
(* sysset.py and the image tools name, 4 KiB aligned under 4 MiB; each    *)
(* input fits its region.  Keys are strings of HexLen = 4 characters (the  *)
(* code's 32 scaled down): two valid ones, one with a bad character, one   *)
(* too short, and the forms int(s, 16) accepts beyond plain hex digits.    *)
(***************************************************************************)
EXTENDS AesTool

MC_Offsets == [SYS_SET |-> 0, SYS_STATUS |-> 4096, MBL |-> 12288,
               IMG_0 |-> 131072, IMG_1 |-> 1048576, END |-> 4194304]
MC_InSizes == [SYS_SET |-> 4096, SYS_STATUS |-> 8192, MBL |-> 40000,
               IMG_0 |-> 400000, IMG_1 |-> 400000, END |-> 0]
MC_Types   == {"MBL", "IMG_0", "IMG_1", "OTA"}
MC_HexKeys == {<<"0", "f", "0", "f">>, <<"f", "f", "f", "f">>,
               <<"f", "f", "g", "f">>, <<"f", "f", "f">>}
MC_OddKeys == MC_HexKeys \cup
              {<<"0", "x", "0", "f">>, <<" ", "f", "f", "f">>, <<"-", "f", "f", "f">>,
               <<"f", "_", "f", "f">>, <<"0", "x", "_", "f">>, <<"f", "f", "_", "_">>}

=============================================================================
