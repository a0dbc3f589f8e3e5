------------------------------ MODULE SysSet -------------------------------
(***************************************************************************)
(* scripts/imgtool/sysset.py: one run of main() with -t SYS_SET writes the *)
(* system-settings sector (a 48-byte little-endian struct padded with 0xFF *)
(* to 4 KiB), with -t SYS_STATUS an 8 KiB sector of 0xFF, and with any     *)
(* other type nothing.  The output file may already hold an earlier        *)
(* build's sector.  Macro values (macro_parser, not among these sources)   *)
(* are inputs: a configuration record.                                     *)
(***************************************************************************)
EXTENDS ImgFormat

CONSTANTS
    Configs,     \* [vtor_align, offsets, mbl_ver, img_ver] as macros resolve
    RunTypes,    \* -t arguments
    OldFiles     \* what the output file held before the run

SYS_MAGIC         == 1195651890      \* 0x47443332, "GD32"
SYS_HEADER_SIZE   == 32              \* sysset.py's own IMAGE_HEADER_SIZE (0x20)
JSTART            == 536875119       \* 0x2000106F
SECTOR            == 4096            \* 0x1000
STATUS_SECTOR     == 8192            \* 0x2000
SysSetKeys        == {"SYS_SET", "MBL", "SYS_STATUS", "IMG_0", "IMG_1", "END"}

VARIABLES
    phase,     \* "start", "done", "raised"
    outfile,   \* the output file: [fields, fill] as chunks, or an earlier file
    cfg,       \* history: the configuration of the run
    wrote      \* history: the sector main wrote, "" if none

vars == <<phase, outfile, cfg, wrote>>

\* A file: packed bytes followed by 0xFF fill.
FileOf(bytes, fill) == [bytes |-> bytes, fill |-> fill]

-----------------------------------------------------------------------------
(* SysSet.generate                                                          *)

\* offsets[X] + vtor_align - IMAGE_HEADER_SIZE
HdrOffset(c, x) == c.offsets[x] + c.vtor_align - SYS_HEADER_SIZE

\* Fault variant of SysFields (mutation check): the two image offsets
\* passed to struct.pack in swapped order.
SysFieldsSwapped(c) ==
    << JSTART, 0, SYS_MAGIC, c.offsets["SYS_SET"], HdrOffset(c, "MBL"),
       c.offsets["SYS_STATUS"], HdrOffset(c, "IMG_1"), HdrOffset(c, "IMG_0"),
       c.mbl_ver, c.img_ver >>

\* The struct.pack arguments before the version-locked flag and END.
SysFields(c) ==
    << JSTART, 0, SYS_MAGIC, c.offsets["SYS_SET"], HdrOffset(c, "MBL"),
       c.offsets["SYS_STATUS"], HdrOffset(c, "IMG_0"), HdrOffset(c, "IMG_1"),
       c.mbl_ver, c.img_ver >>

\* generate raises: KeyError for an offset macro the config lacks,
\* struct.error for a field outside uint32 (a negative shifted offset).
GenerateError(c) ==
    CASE ~(SysSetKeys \subseteq DOMAIN c.offsets)                   -> "KeyError"
      [] \E i \in 1..10 : ~Fits(SysFields(c)[i], 4)
            \/ ~Fits(c.offsets["END"], 4)                            -> "StructError"
      [] OTHER                                                       -> ""

\* fmt '<' + 'I' * 12; 0xFFFFFFFF is the version-locked flag.
SysStruct(c) ==
    FlattenSeq([i \in 1..10 |-> LE(SysFields(c)[i], 4)])
      \o <<255, 255, 255, 255>> \o LE(c.offsets["END"], 4)

\* Fault variant of GenSysSet (mutation check): the file opened, and so
\* truncated, before generate runs.
GenSysSetOpenFirst(c) ==
    IF GenerateError(c) # ""
      THEN phase' = "raised" /\ outfile' = FileOf(<<>>, 0) /\ UNCHANGED wrote
      ELSE /\ outfile' = FileOf(SysStruct(c), SECTOR - Len(SysStruct(c)))
           /\ phase' = "done" /\ wrote' = "SYS_SET"

\* gen_sysset: generate, then open(outfile, 'wb') and write the buffer.
GenSysSet(c) ==
    IF GenerateError(c) # ""
      THEN phase' = "raised" /\ UNCHANGED <<outfile, wrote>>
      ELSE /\ outfile' = FileOf(SysStruct(c), SECTOR - Len(SysStruct(c)))
           /\ phase' = "done" /\ wrote' = "SYS_SET"

\* main(): SYS_SET, SYS_STATUS, or nothing for another type.
Main ==
    /\ phase = "start"
    /\ \E c \in Configs, t \in RunTypes :
        /\ cfg' = c
        /\ CASE t = "SYS_SET"    -> GenSysSet(c)
             [] t = "SYS_STATUS" -> /\ outfile' = FileOf(<<>>, STATUS_SECTOR)
                                   /\ phase' = "done" /\ wrote' = "SYS_STATUS"
             [] OTHER            -> phase' = "done" /\ UNCHANGED <<outfile, wrote>>

Init ==
    /\ phase = "start"
    /\ outfile \in OldFiles
    /\ cfg = CHOOSE c \in Configs : TRUE
    /\ wrote = ""

Next == Main

Spec == Init /\ [][Next]_vars

-----------------------------------------------------------------------------
(* Properties                                                              *)

FileLen(f) == Len(f.bytes) + f.fill

TypeOK ==
    /\ phase \in {"start", "done", "raised"}
    /\ outfile.bytes \in Seq(Byte) /\ outfile.fill \in Nat
    /\ wrote \in {"", "SYS_SET", "SYS_STATUS"}

\* Word i (from 0) of the sector, little-endian.
Word(f, i) == ULE(f.bytes, 4 * i, 4)

\* A settings sector that main wrote is one whole 4 KiB sector and reads
\* back, word by word, to the configuration: the magic, the offsets of
\* the settings and status sectors, each image's header placed so that
\* its vector table sits at offset + vtor_align, and the two versions.
SysSetReadsBack ==
    wrote = "SYS_SET" =>
      /\ FileLen(outfile) = SECTOR
      /\ Word(outfile, 2) = SYS_MAGIC
      /\ Word(outfile, 3) = cfg.offsets["SYS_SET"]
      /\ Word(outfile, 5) = cfg.offsets["SYS_STATUS"]
      /\ \A x \in {<<4, "MBL">>, <<6, "IMG_0">>, <<7, "IMG_1">>} :
            Word(outfile, x[1]) + SYS_HEADER_SIZE = cfg.offsets[x[2]] + cfg.vtor_align
      /\ Word(outfile, 8) = cfg.mbl_ver /\ Word(outfile, 9) = cfg.img_ver
      /\ Word(outfile, 11) = cfg.offsets["END"]

\* A run that raises leaves the output file as it was: generate runs to
\* completion before the file is opened, so no truncated sector is left.
FailedRunKeepsFile == [][phase' = "raised" => outfile' = outfile]_vars

=============================================================================
