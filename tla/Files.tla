------------------------------- MODULE Files -------------------------------
(* files.c: cp, mv and cat system call by system call, touch, ln, rm and    *)
(* the other tools for names, chmod and chown over several files. Other    *)
(* processes may change the source meanwhile.                              *)
EXTENDS Naturals, Sequences, SequencesExt, FiniteSets

CONSTANTS Jobs,         \* command lines, with what is there to begin with
          Bytes,        \* what files are made of
          Room          \* bound: how long a file may get

Commands == {"touch", "mkdir", "mknod", "ln", "rm", "rmdir", "chmod", "chown", "cp", "mv", "cat"}

\* A command line names what exists or could, and there is a free inode.
FilesAssumption ==
    /\ Room \in Nat
    /\ \A j \in Jobs :
          /\ j.cmd \in Commands
          /\ j.args \in Seq(DOMAIN j.ino) /\ j.args # <<>>
          /\ j.cmd \in {"cp", "mv"} => Len(j.args) = 2
          /\ j.ino \in [DOMAIN j.ino -> {0} \cup DOMAIN j.kind]
          /\ j.data \in [DOMAIN j.kind -> Seq(Bytes)]
          /\ DOMAIN j.kind \subseteq Nat \ {0}
          /\ \E n \in DOMAIN j.kind : j.kind[n] = "free"
          /\ j.stdout \in DOMAIN j.kind

(* A job: cmd; args, names; cross: the two names are on different          *)
(* filesystems; stdout: the inode cat writes to; ino: the inode of each    *)
(* name, 0 if there is none; kind, data: of each inode.                    *)

VARIABLES job, ino, kind, data, pc,
          k,            \* which argument cat, chmod or chown is at
          fd,           \* the inode that was opened as the source
          done,         \* how much of it has been read
          left,         \* how much is still to be sent
          meddled,      \* history: somebody else changed a file
          exit

vars == <<job, ino, kind, data, pc, k, fd, done, left, meddled, exit>>

Src == job.args[1]
Dst == job.args[2]
New == CHOOSE n \in DOMAIN kind : kind[n] = "free"
NoExit == "pending"

Init == /\ job \in Jobs
        /\ ino = job.ino /\ kind = job.kind /\ data = job.data
        /\ pc = job.cmd /\ k = 1 /\ fd = 0 /\ done = 0 /\ left = 0
        /\ meddled = FALSE /\ exit = NoExit

Ends(how) == pc' = "done" /\ exit' = how /\ UNCHANGED <<job, k, fd, done, left, meddled>>
Same == UNCHANGED <<ino, kind, data>>

\* The name gets an inode of its own, of that kind and with those data.
Create(name, what, d) == /\ ino' = [ino EXCEPT ![name] = New]
                         /\ kind' = [kind EXCEPT ![New] = what]
                         /\ data' = [data EXCEPT ![New] = d]

-----------------------------------------------------------------------------
(* One system call each.                                                    *)

\* touch: access() and then creat(), which would empty a file made in between.
TouchLooks == /\ pc = "touch"
              /\ IF ino[Src] # 0 THEN Ends("ok")
                 ELSE pc' = "creat" /\ UNCHANGED <<job, k, fd, done, left, meddled, exit>>
              /\ Same
TouchCreates == /\ pc = "creat"
                /\ IF ino[Src] = 0 THEN Create(Src, "file", <<>>)
                   ELSE data' = [data EXCEPT ![ino[Src]] = <<>>] /\ UNCHANGED <<ino, kind>>
                /\ Ends("ok")

Makes == /\ pc \in {"mkdir", "mknod"} /\ ino[Src] = 0
         /\ Create(Src, IF pc = "mkdir" THEN "dir" ELSE "node", <<>>)
         /\ Ends("ok")

Links == /\ pc = "ln" /\ ino[Src] # 0 /\ ino[Dst] = 0
         /\ ino' = [ino EXCEPT ![Dst] = ino[Src]] /\ UNCHANGED <<kind, data>>
         /\ Ends("ok")

Removes == /\ pc \in {"rm", "rmdir"} /\ ino[Src] # 0
           /\ (kind[ino[Src]] = "dir") = (pc = "rmdir")
           /\ ino' = [ino EXCEPT ![Src] = 0] /\ UNCHANGED <<kind, data>>
           /\ Ends("ok")

\* chmod, chown: every file is tried, and one failure is enough to be told of.
EachFile == /\ pc \in {"chmod", "chown"}
            /\ IF k > Len(job.args) THEN Ends(IF exit = NoExit THEN "ok" ELSE exit) /\ Same
               ELSE /\ \/ ino[job.args[k]] = 0 /\ exit' = "failed" /\ Same
                       \/ /\ ino[job.args[k]] # 0 /\ exit' = exit
                          /\ data' = [data EXCEPT ![ino[job.args[k]]] = <<pc>>]
                          /\ UNCHANGED <<ino, kind>>
                    /\ k' = k + 1
                    /\ UNCHANGED <<job, pc, fd, done, left, meddled>>

-----------------------------------------------------------------------------
(* cp and mv.                                                               *)

\* rename() is one step; across filesystems it is refused and the file copied.
Rename == /\ pc = "mv" /\ ino[Src] # 0
          /\ IF job.cross
             THEN pc' = "open" /\ Same /\ UNCHANGED <<job, k, fd, done, left, meddled, exit>>
             ELSE /\ ino' = IF ino[Src] = ino[Dst] THEN ino
                            ELSE [ino EXCEPT ![Dst] = ino[Src], ![Src] = 0]
                  /\ UNCHANGED <<kind, data>>
                  /\ Ends("ok")

Copy == pc = "cp" /\ pc' = "open" /\ Same /\ UNCHANGED <<job, k, fd, done, left, meddled, exit>>

\* Mutant: nobody asks whether both are the same file.
NotToBeCopiedSame == ino[Src] = 0 \/ kind[ino[Src]] # "file"

NotToBeCopied == ino[Src] = 0 \/ kind[ino[Src]] # "file" \/ ino[Src] = ino[Dst]

\* copy_file(): the source is opened and measured, and must be a regular file
\* and not the destination.
OpenSource == /\ pc = "open"
              /\ IF NotToBeCopied
                 THEN Ends("failed")
                 ELSE /\ fd' = ino[Src] /\ left' = Len(data[ino[Src]])
                      /\ pc' = "truncate" /\ UNCHANGED <<job, k, done, meddled, exit>>
              /\ Same

Truncate == /\ pc = "truncate"
            /\ IF ino[Dst] = 0 THEN Create(Dst, "file", <<>>)
               ELSE data' = [data EXCEPT ![ino[Dst]] = <<>>] /\ UNCHANGED <<ino, kind>>
            /\ pc' = "send"
            /\ UNCHANGED <<job, k, fd, done, left, meddled, exit>>

\* sendfile(): some of what is left; nothing is an error, the file has shrunk.
SendSome == /\ pc = "send" /\ left > 0
            /\ \E n \in 1..left :
                 /\ done + n <= Len(data[fd])
                 /\ data' = [data EXCEPT ![ino[Dst]] = @ \o SubSeq(data[fd], done + 1, done + n)]
                 /\ done' = done + n /\ left' = left - n
            /\ UNCHANGED <<job, ino, kind, pc, k, fd, meddled, exit>>

Sent == /\ pc = "send" /\ left = 0
        /\ IF job.cmd = "cp" THEN Ends("ok")
           ELSE pc' = "unlink" /\ UNCHANGED <<job, k, fd, done, left, meddled, exit>>
        /\ Same

\* move_across(): the source goes only when all of it has been copied.
Unlink == /\ pc = "unlink" /\ ino[Src] # 0
          /\ ino' = [ino EXCEPT ![Src] = 0] /\ UNCHANGED <<kind, data>>
          /\ Ends("ok")

\* Any call may fail, and the program may be killed.
Fails == /\ pc \notin {"done", "chmod", "chown", "cat"}
         /\ Ends("failed") /\ Same

-----------------------------------------------------------------------------

\* cat: the next argument is opened, unless it is missing or is the output.
CatOpen == /\ pc = "cat" /\ fd = 0
           /\ IF k > Len(job.args) THEN Ends(IF exit = NoExit THEN "ok" ELSE exit)
              ELSE LET n == ino[job.args[k]]
                   IN /\ IF n = 0 \/ n = job.stdout
                         THEN k' = k + 1 /\ fd' = fd /\ exit' = "failed"
                         ELSE k' = k /\ fd' = n /\ exit' = exit
                      /\ done' = 0 /\ UNCHANGED <<job, pc, left, meddled>>
           /\ Same

\* cat_fd(): read some, write it all; at the end of the file the next one.
CatSome == /\ pc = "cat" /\ fd # 0
           /\ IF done = Len(data[fd])
              THEN k' = k + 1 /\ fd' = 0 /\ Same /\ done' = done
              ELSE \E n \in 1..(Len(data[fd]) - done) :
                     /\ Len(data[job.stdout]) + n <= Room
                     /\ data' = [data EXCEPT ![job.stdout] = @ \o SubSeq(data[fd], done + 1, done + n)]
                     /\ done' = done + n /\ k' = k /\ fd' = fd /\ UNCHANGED <<ino, kind>>
           /\ UNCHANGED <<job, pc, left, meddled, exit>>

CatFails == /\ pc = "cat" /\ fd # 0
            /\ fd' = 0 /\ k' = k + 1 /\ exit' = "failed"
            /\ Same /\ UNCHANGED <<job, pc, done, left, meddled>>

\* Another process adds to a file, empties it, makes it or takes it away.
Meddle == /\ pc # "done" /\ ~meddled
          /\ \/ /\ ino[Src] # 0
                /\ data' = [data EXCEPT ![ino[Src]] = IF @ = <<>> THEN <<"m">> ELSE <<>>]
                /\ UNCHANGED <<ino, kind>>
             \/ ino[Src] = 0 /\ Create(Src, "file", <<"m">>)
             \/ ino[Src] # 0 /\ ino' = [ino EXCEPT ![Src] = 0] /\ UNCHANGED <<kind, data>>
          /\ meddled' = TRUE
          /\ UNCHANGED <<job, pc, k, fd, done, left, exit>>

Next == \/ TouchLooks \/ TouchCreates \/ Makes \/ Links \/ Removes \/ EachFile
        \/ Rename \/ Copy \/ OpenSource \/ Truncate \/ SendSome \/ Sent \/ Unlink \/ Fails
        \/ CatOpen \/ CatSome \/ CatFails \/ Meddle

-----------------------------------------------------------------------------

At(name) == IF ino[name] = 0 THEN <<"gone">> ELSE data[ino[name]]
Was(name) == IF job.ino[name] = 0 THEN <<"gone">> ELSE job.data[job.ino[name]]

\* cp, mv: what was in the source is, at every moment and wherever a call fails,
\* still there or whole at the destination; success means that all of it is.
SourceKept ==
    /\ At(Src) = Was(Src) \/ At(Dst) = Was(Src)
    /\ job.cmd = "cp" => At(Src) = Was(Src)
    /\ exit = "ok" => At(Dst) = Was(Src)

\* cat: what the output is once the first n files are on it.
Said(j) == IF job.ino[job.args[j]] \in {0, job.stdout} THEN <<>> ELSE Was(job.args[j])
Output(n) ==
    LET to[j \in 0..Len(job.args)] == IF j = 0 THEN job.data[job.stdout] ELSE to[j - 1] \o Said(j)
    IN to[n]

AllSaid ==
    /\ exit = NoExit => IsPrefix(data[job.stdout], Output(Len(job.args)))
    /\ exit = "ok" => data[job.stdout] = Output(Len(job.args))
    /\ \A j \in DOMAIN job.args :
          job.ino[job.args[j]] # job.stdout => At(job.args[j]) = Was(job.args[j])

NothingEmptied == job.ino[Src] # 0 => At(Src) = Was(Src)

EachChanged == exit = "ok" => \A j \in DOMAIN job.args : At(job.args[j]) = <<job.cmd>>

\* Unless somebody else changes it meanwhile: cp and mv keep the source; cat says
\* all its files in order, and a file added to itself is left as it was; touch
\* empties nothing; chmod and chown succeed only if each file was changed
\* (copy_file, move_across, prog_cat, prog_touch, prog_chmod).
NothingLost ==
    ~meddled =>
        /\ job.cmd \in {"cp", "mv"} => SourceKept
        /\ job.cmd = "cat" => AllSaid
        /\ job.cmd = "touch" => NothingEmptied
        /\ job.cmd \in {"chmod", "chown"} => EachChanged

TypeOK == /\ ino \in [DOMAIN job.ino -> 0..Len(job.kind)]
          /\ left \in 0..Room /\ done \in 0..Room
          /\ exit \in {NoExit, "ok", "failed"}

=============================================================================
