--------------------------- MODULE ImageSaveFault --------------------------
(***************************************************************************)
(* ImageSign with the output file and a failing write.  Image.save opens   *)
(* the path with 'wb', which truncates it, then writes the payload; the    *)
(* write may raise (disk full, an I/O error, an interrupt) after part of   *)
(* the buffer went out.  The other methods do not touch the file.          *)
(***************************************************************************)
EXTENDS ImageSign

VARIABLE
    disk    \* what the output path holds: "old", "image" (the whole payload), "truncated"

fvars == <<vars, disk>>

\* save(path): with open(path, 'wb') as f: f.write(self.payload).  Either
\* the whole payload is written, or the write raises with the file already
\* truncated and at most a prefix of the payload in it.
SaveFaulty ==
    \/ Save /\ disk' = "image"
    \/ /\ phase \in SaveFrom
       /\ phase' = "raised"
       /\ err' = [op |-> "save", exc |-> "OSError"]
       /\ disk' = "truncated"
       /\ UNCHANGED <<img, payload, trailer, loaded, signArgs, padArgs>>

FInit == Init /\ disk = "old"

FNext ==
    \/ (Load \/ Sign \/ PadTo) /\ UNCHANGED disk
    \/ SaveFaulty

FSpec == FInit /\ [][FNext]_fvars

-----------------------------------------------------------------------------

\* The output path never holds a partial image: it keeps its old contents
\* until the whole signed buffer is written (spec section 7: "no
\* partial/corrupt image is ever persisted to disk").
NoPartialImagePersisted == disk # "truncated"

=============================================================================
