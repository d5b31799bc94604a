------------------------------- MODULE Batch -------------------------------
(* How every script under scripts/ runs: it reads what it needs, computes,  *)
(* and then opens its output files one after the other with mode "w", which *)
(* truncates a file that exists. One operator starts the scripts, one at a  *)
(* time. A script that raises stops where it is; one that is killed leaves  *)
(* the file it was writing incomplete. Nothing is ever rolled back.         *)
EXTENDS Naturals, SequencesExt

CONSTANT MaxKills   \* bound

VARIABLES
    fs,        \* the content of each file
    job,       \* the script that runs and what it has still to write
    launches,  \* scripts started; a content is stamped with its launch
    kills,
    dirty      \* scripts that wrote something and did not come to their end

batchVars == <<fs, job, launches, kills, dirty>>

\* The content of a file that does not exist, and of one that was cut and cannot
\* be parsed. Every other content is a record with other fields, or a directory.
Absent == [state |-> "absent"]
Unreadable == [state |-> "cut"]

Idle == [prog |-> "none", left |-> << >>, ok |-> TRUE]

Readable(files, f) == files[f] \notin {Absent, Unreadable}

Put(f, content) == [file |-> f, content |-> content]

\* The files after all of some writes: the last write of a file counts.
AfterWrites(files, writes) ==
    [f \in DOMAIN files |->
        LET of == {i \in DOMAIN writes : writes[i].file = f}
        IN  IF of = {} THEN files[f]
            ELSE writes[CHOOSE i \in of : \A j \in of : j <= i].content]

\* The files that are longer than the write buffer and that a reader takes as
\* far as they go: CSV files with the windows of many experiments.
WindowFiles == {"windows_all", "windows_train", "windows_val", "windows_test"}

\* A directory of one launch, or of copies: the new file is cut in it.
ModelFiles == {"binary_models", "multiclass_models"}
CopyDirectories == {"p4_source", "p6_source"}

\* What is left of file f when its writer is killed: it is still as it was, or
\* it holds a part of the new content. Shorter files are empty until they are
\* closed, and a part of a JSON or binary file cannot be parsed.
Torn(f, old, new) ==
    {old} \union
    CASE f \in WindowFiles ->
            {[new EXCEPT !.rows = SubSeq(@, 1, n), !.whole = FALSE] : n \in 0 .. Len(new.rows) - 1}
      [] f = "raw_index" ->
            {[new EXCEPT !.rows = [e \in {d \in DOMAIN @ : d < k} |-> @[e]]] : k \in DOMAIN new.rows}
      [] f \in ModelFiles -> {}
      [] f \in CopyDirectories ->
            {[g \in DOMAIN new |-> IF g \in DOMAIN old /\ old[g] = new[g] THEN old[g] ELSE 0]}
      [] OTHER -> {Unreadable}

\* A script that reads, computes and is about to write. One that fails before
\* its first write changes nothing and is left out. The stamp of what it will
\* write is launches + 1.
Launch(p, writes, ok) ==
    /\ job = Idle
    /\ writes # << >>
    /\ job' = [prog |-> p, left |-> writes, ok |-> ok]
    /\ launches' = launches + 1
    /\ UNCHANGED <<fs, kills, dirty>>

\* The next file, completely; after the last one the script is over.
WriteFile ==
    /\ job # Idle
    /\ fs' = [fs EXCEPT ![Head(job.left).file] = Head(job.left).content]
    /\ IF Len(job.left) > 1
         THEN /\ job' = [job EXCEPT !.left = Tail(@)]
              /\ dirty' = dirty \union {job.prog}
         ELSE /\ job' = Idle
              /\ dirty' = IF job.ok THEN dirty \ {job.prog}
                                    ELSE dirty \union {job.prog}
    /\ UNCHANGED <<launches, kills>>

\* The script dies while it writes its next file.
Kill ==
    /\ job # Idle
    /\ kills < MaxKills
    /\ LET next == Head(job.left)
       IN  \E cut \in Torn(next.file, fs[next.file], next.content) :
              fs' = [fs EXCEPT ![next.file] = cut]
    /\ job' = Idle
    /\ kills' = kills + 1
    /\ dirty' = dirty \union {job.prog}
    /\ UNCHANGED launches

\* The last launch of each of these scripts came to its end and none runs.
Settled(progs) == dirty \cap progs = {} /\ job.prog \notin progs

=============================================================================
