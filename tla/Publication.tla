---------------------------- MODULE Publication ----------------------------
(* What a batch program promises about a directory of results: its manifest *)
(* is the last file it writes, so a manifest that can be read names a       *)
(* launch that wrote all the files it lists. Files that are overwritten     *)
(* later, by the next launch or by one that is interrupted, no longer match *)
(* the manifest, and only a whole new launch makes them match again.        *)
EXTENDS Naturals

VARIABLES
    started,    \* launches so far
    published,  \* the launch the manifest names, 0 when there is none
    whole       \* all files of the directory are of that launch

pubVars == <<started, published, whole>>

PubTypeOK ==
    /\ started \in Nat
    /\ published \in 0 .. started
    /\ whole \in BOOLEAN

PubInit == PubTypeOK /\ (whole => published # 0)

Start == started' = started + 1 /\ UNCHANGED <<published, whole>>

\* One of the files is written while the manifest stays.
Overwrite == whole' = FALSE /\ UNCHANGED <<started, published>>

\* The manifest is opened for writing and the program dies.
Withdraw == published' = 0 /\ whole' = FALSE /\ UNCHANGED started

\* The manifest is written: by the launch that is running, and last.
Publish == published' = started /\ started # 0 /\ whole' = TRUE /\ UNCHANGED started

PubNext == Start \/ Overwrite \/ Withdraw \/ Publish

PubSpec == PubInit /\ [][PubNext]_pubVars

=============================================================================
