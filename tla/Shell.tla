------------------------------- MODULE Shell --------------------------------
(***************************************************************************)
(* The command loop of src/shell/shell.cpp over the filesystem.            *)
(*                                                                         *)
(* A line, an argument, a path, a name and a text are sequences of         *)
(* symbols: a space, a slash, or a run of other characters that nothing    *)
(* looks into.  In C argv counts from 0, here from 1.  The code puts paths *)
(* together in arrays of MAX_PATH bytes without testing their length: with *)
(* a line that overruns one the model stops, for what the kernel does from *)
(* there on is undefined.  Interrupts.tla has the typing of a line; of the *)
(* output only what ls and cat print is modelled.                          *)
(*                                                                         *)
(* The shell is the only caller of the filesystem: its steps are steps of  *)
(* FileSystem, whose constants ShellAssumption ties to the lines.          *)
(***************************************************************************)
EXTENDS FileSystem, SequencesExt

CONSTANTS
  Lines,      \* what is typed
  MAX_ARGS,   \* words a line is split into
  MAX_NAME,   \* symbols of the longest name fs_create accepts
  MAX_PATH,   \* size of the arrays for paths, terminator included
  CatBuffer   \* bytes cat reads at a time: 127 in the code

VARIABLES
  cwd_ino,   \* inode of the current directory
  cwd_path,  \* its path, as cd has put it together
  running,   \* has shutdown not been run, and no array been overrun?
  written    \* history: the text of the last write to an inode

shellVars == <<inodes, blocks, ret, stored, cwd_ino, cwd_path, running, written>>

-----------------------------------------------------------------------------
(* Lines and arguments.                                                    *)

\* The first position from p on that is a space, or that is none.
FirstFrom(line, p, isSpace) ==
  Min({Len(line) + 1} \cup {q \in p .. Len(line) : (line[q] = " ") = isSpace})

\* Fault: of several spaces only one is skipped.
parse_args_OneSpace(line) ==
  LET loop[argc \in 0 .. MAX_ARGS] ==
        LET last == loop[argc - 1]
            end  == FirstFrom(line, last.p, TRUE)
        IN  IF argc = 0 THEN [p |-> 1, argv |-> <<>>]
            ELSE IF last.p > Len(line) THEN last
            ELSE [p |-> end + 1, argv |-> Append(last.argv, SubSeq(line, last.p, end - 1))]
  IN  loop[MAX_ARGS].argv

\* The words of a line, one a round; those after the last slot are dropped.
parse_args(line) ==
  LET loop[argc \in 0 .. MAX_ARGS] ==
        LET last  == loop[argc - 1]
            start == FirstFrom(line, last.p, FALSE)
            end   == FirstFrom(line, start, TRUE)
        IN  IF argc = 0 THEN [p |-> 1, argv |-> <<>>]
            ELSE IF start > Len(line) THEN last
            ELSE [p |-> end + 1, argv |-> Append(last.argv, SubSeq(line, start, end - 1))]
  IN  loop[MAX_ARGS].argv

\* The arguments from start on, with one space between two.
join_args(argv, start) ==
  LET text[i \in start .. Len(argv)] ==
        IF i = start THEN argv[i] ELSE text[i - 1] \o <<" ">> \o argv[i]
  IN  text[Len(argv)]

\* What shell_run dispatches: the arguments of each line.
Commands   == {parse_args(line) : line \in Lines}
EntryNames == UNION {Range(argv) : argv \in Commands}
Texts      == {join_args(argv, 3) : argv \in {c \in Commands : Len(c) >= 3}}
Symbols    == {" ", "/"} \cup UNION {Range(line) : line \in Lines}

ASSUME ShellAssumption ==
  /\ MAX_ARGS \in Nat \ {0} /\ MAX_PATH \in Nat \ {0, 1} /\ MAX_NAME \in Nat
  /\ CatBuffer \in Nat \ {0}
  /\ Lines \subseteq Seq(Symbols)
  /\ \A argv \in Commands : \A i \in DOMAIN argv : Len(argv[i]) < MAX_PATH
  /\ Names = {name \in EntryNames : Len(name) <= MAX_NAME}
  /\ BadNames = {name \in EntryNames : Len(name) > MAX_NAME}
  /\ CallTypes = {1, 2} /\ StaleNext = {0} /\ Offsets = {0} /\ Sources = Texts

IsAbsolute(arg) == arg[1] = "/"

\* The segments of a path, empty ones included: the first character, which is
\* skipped, and each slash after it begin one.
parse_path(path) ==
  LET upto[i \in 1 .. Len(path)] ==
        IF i = 1 THEN << <<>> >>
        ELSE IF path[i] = "/" THEN Append(upto[i - 1], <<>>)
        ELSE Append(Front(upto[i - 1]), Append(Last(upto[i - 1]), path[i]))
  IN  IF path = <<"/">> THEN <<>> ELSE upto[Len(path)]

\* The path of an argument: a relative one is appended to cwd_path.
FullPath(arg) ==
  IF IsAbsolute(arg) THEN arg
  ELSE cwd_path \o (IF Last(cwd_path) = "/" THEN arg ELSE <<"/">> \o arg)

\* Fault: a relative path is looked up from the root.
resolve_path_FromRoot(arg) ==
  fs_lookup(parse_path(IF IsAbsolute(arg) THEN arg ELSE <<"/">> \o arg))

resolve_path(arg) == fs_lookup(parse_path(FullPath(arg)))

\* The commands that call resolve_path, after their early returns.
Resolves(argv) ==
  \/ Len(argv) >= 2 /\ argv[1] \in {<<"ls">>, <<"cd">>, <<"cat">>}
  \/ Len(argv) >= 3 /\ argv[1] = <<"write">>

\* resolve_path copies more than its array holds, and so would cd.  Only a
\* relative argument is copied there; an absolute one fits into cwd_path.
Overruns(argv) ==
  Resolves(argv) /\ ~IsAbsolute(argv[2]) /\ Len(FullPath(argv[2])) >= MAX_PATH

-----------------------------------------------------------------------------
(* The commands, each with its early returns.                              *)

\* kernel_main runs fs_init before the shell.
ShellInit ==
  /\ inodes = <<NewInode(2)>> /\ blocks = <<>> /\ ret = 0 /\ stored = {}
  /\ cwd_ino = ROOT_INO
  /\ cwd_path = <<"/">>
  /\ running = TRUE
  /\ written = [ino \in 1 .. MaxInodes |-> <<>>]

\* Fault: what does not resolve is not refused.
CanEnter_NotFound(argv) ==
  /\ Len(argv) >= 2
  /\ \/ resolve_path(argv[2]) = INVALID_INO
     \/ is_dir(resolve_path(argv[2]))

\* cd refuses what does not resolve and what is not a directory.
CanEnter(argv) == Len(argv) >= 2 /\ is_dir(resolve_path(argv[2]))

cmd_cd(argv) ==
  \/ ~CanEnter(argv) /\ UNCHANGED shellVars
  \/ /\ CanEnter(argv)
     /\ cwd_ino' = resolve_path(argv[2])
     /\ cwd_path' = FullPath(argv[2])
     /\ UNCHANGED <<vars, running, written>>

\* mkdir, touch and rm take a relative argument, slashes and all, as a name.
TakesName(argv) == Len(argv) >= 2 /\ ~IsAbsolute(argv[2])

cmd_create(argv, type) ==
  \/ ~TakesName(argv) /\ UNCHANGED shellVars
  \/ /\ TakesName(argv)
     /\ \/ fs_create(cwd_ino, argv[2], type, 0)
        \/ fs_create_fails(cwd_ino, argv[2])
     /\ UNCHANGED <<cwd_ino, cwd_path, running, written>>

\* Fault: any path is taken, its last segment removed from where the others lead.
cmd_rm_Resolved(argv) ==
  LET path   == parse_path(FullPath(argv[2]))
      parent == fs_lookup(Front(path))
  IN  /\ Len(argv) >= 2 /\ path # <<>>
      /\ \/ fs_unlink(parent, Last(path))
         \/ fs_unlink_fails(parent, Last(path))
      /\ UNCHANGED <<cwd_ino, cwd_path, running, written>>

cmd_rm(argv) ==
  \/ ~TakesName(argv) /\ UNCHANGED shellVars
  \/ /\ TakesName(argv)
     /\ \/ fs_unlink(cwd_ino, argv[2])
        \/ fs_unlink_fails(cwd_ino, argv[2])
     /\ UNCHANGED <<cwd_ino, cwd_path, running, written>>

CanWrite(argv) == Len(argv) >= 3 /\ resolve_path(argv[2]) # INVALID_INO

\* write starts at offset 0 and does not shorten the file.
cmd_write(argv) ==
  \/ ~CanWrite(argv) /\ UNCHANGED shellVars
  \/ LET ino  == resolve_path(argv[2])
         text == join_args(argv, 3)
     IN  /\ CanWrite(argv)
         /\ \/ /\ fs_write(ino, 0, text, 0)
               /\ written' = [written EXCEPT ![ino] = text]
            \/ fs_write_fails(ino) /\ UNCHANGED written
         /\ UNCHANGED <<cwd_ino, cwd_path, running>>

cmd_shutdown == running' = FALSE /\ UNCHANGED <<vars, cwd_ino, cwd_path, written>>

Verbs == {<<"cd">>, <<"mkdir">>, <<"touch">>, <<"rm">>, <<"write">>, <<"shutdown">>}

\* Memory past an array is written: nothing is known of what follows.
overrun(argv) == Overruns(argv) /\ running' = FALSE /\ UNCHANGED <<vars, cwd_ino, cwd_path, written>>

\* One line that fits: a line without words, the commands that only print, and
\* words that are no command change nothing.
dispatch(argv) ==
  LET verb == IF argv = <<>> THEN <<>> ELSE argv[1]
  IN  \/ verb = <<"cd">> /\ cmd_cd(argv)
      \/ verb = <<"mkdir">> /\ cmd_create(argv, 2)
      \/ verb = <<"touch">> /\ cmd_create(argv, 1)
      \/ verb = <<"rm">> /\ cmd_rm(argv)
      \/ verb = <<"write">> /\ cmd_write(argv)
      \/ verb = <<"shutdown">> /\ cmd_shutdown
      \/ verb \notin Verbs /\ UNCHANGED shellVars

shell_run(argv) == overrun(argv) \/ (~Overruns(argv) /\ dispatch(argv))

ShellNext == running /\ \E argv \in Commands : shell_run(argv)

ShellSpec == ShellInit /\ [][ShellNext]_shellVars

-----------------------------------------------------------------------------
(* What the commands that change nothing print.                            *)

\* Fault: the offset advances by the whole buffer, the terminator included.
cmd_cat_Terminator(ino) ==
  LET loop[n \in 0 .. inodes[ino].size] ==
        LET last  == loop[n - 1]
            piece == fs_read(ino, last.offset, CatBuffer)
        IN  IF n = 0 THEN [offset |-> 0, out |-> <<>>]
            ELSE IF piece.ret <= 0 THEN last
            ELSE [offset |-> last.offset + piece.ret + 1, out |-> last.out \o piece.bytes]
  IN  loop[inodes[ino].size].out

\* cat: the pieces read until a read returns 0, put together; each round but
\* the last advances, so there are no more rounds than bytes.
cmd_cat(ino) ==
  LET loop[n \in 0 .. inodes[ino].size] ==
        LET last  == loop[n - 1]
            piece == fs_read(ino, last.offset, CatBuffer)
        IN  IF n = 0 THEN [offset |-> 0, out |-> <<>>]
            ELSE IF piece.ret <= 0 THEN last
            ELSE [offset |-> last.offset + piece.ret, out |-> last.out \o piece.bytes]
  IN  loop[inodes[ino].size].out

\* ls: each entry of a directory, and the type of its inode.
cmd_ls(ino) == {<<d, inodes[d.inode_id].type>> : d \in fs_readdir_all(ino)}

-----------------------------------------------------------------------------
(* Properties.                                                             *)

ShellTypeOK ==
  /\ cwd_ino \in DOMAIN inodes
  /\ cwd_path # <<>> /\ IsAbsolute(cwd_path)
  /\ running \in BOOLEAN

\* The first and the last position of each maximal run without a space.
WordsOf(line) ==
  {r \in (DOMAIN line) \X (DOMAIN line) :
     /\ r[1] <= r[2]
     /\ \A i \in r[1] .. r[2] : line[i] # " "
     /\ r[1] = 1 \/ line[r[1] - 1] = " "
     /\ r[2] = Len(line) \/ line[r[2] + 1] = " "}

ShortLines ==
  UNION {{[i \in 1 .. n |-> IF i \in gaps THEN " " ELSE ToString(i)] : gaps \in SUBSET (1 .. n)} :
           n \in 0 .. 2 * MAX_ARGS + 1}

SplitsIntoWords(line) ==
  LET argv  == parse_args(line)
      words == WordsOf(line)
      \* the word that has k - 1 words before it
      nth(k) == CHOOSE r \in words : Cardinality({s \in words : s[1] <= r[1]}) = k
  IN  /\ Len(argv) = Min({Cardinality(words), MAX_ARGS})
      /\ \A k \in DOMAIN argv : argv[k] = SubSeq(line, nth(k)[1], nth(k)[2])
      /\ argv # <<>> => parse_args(join_args(argv, 1)) = argv

MissplitLines == {line \in ShortLines : ~SplitsIntoWords(line)}

\* Whatever line of words and spaces the shell is given while it runs, it is
\* split into its maximal runs without a space, in order, as many as argv
\* holds; and what write joins from them splits into the same words again.
LineSplitsIntoWords == running => MissplitLines = {}

\* The shell's two notions of the current directory agree: the path that pwd
\* prints leads to the directory that the commands work in, and that
\* directory is never removed, whatever is created and removed.
CwdPathLeadsToCwd ==
  fs_lookup(parse_path(cwd_path)) = cwd_ino /\ is_dir(cwd_ino)

\* What ls shows can be used: in a directory less than MAX_SEGMENTS deep an
\* entry whose name has no slash resolves, as a relative argument, to the
\* inode of that entry, and cd enters it exactly when ls marks a directory.
ListedNamesResolve ==
  Len(parse_path(cwd_path)) < MAX_SEGMENTS =>
    \A entry \in cmd_ls(cwd_ino) :
      LET name == entry[1].name
      IN  "/" \notin Range(name) =>
            /\ resolve_path(name) = entry[1].inode_id
            /\ CanEnter(<< <<"cd">>, name>>) <=> entry[2] = 2

\* cat prints as many bytes as fs_stat says the file has, and first the text of
\* the last write to it, whole and in order: the words of that line with one
\* space between them, wherever the pieces that cat reads meet the blocks, and
\* whatever has been written to other files since.
CatPrintsWritten ==
  \A ino \in Files : LET out == cmd_cat(ino)
                     IN  IsPrefix(written[ino], out) /\ Len(out) = inodes[ino].size

-----------------------------------------------------------------------------
(* What the comments say and the code does not do.                         *)

\* shell.cpp:39: MAX_PATH is the maximum length of a path that the shell puts
\* together, so no line makes it a longer one.
PathsFit == running => \A argv \in Commands : ~Overruns(argv)

\* shell.cpp:291: write overwrites the file with the joined text, so the text
\* of the last write is what cat prints.
WriteOverwrites == \A ino \in Files : written[ino] # <<>> => cmd_cat(ino) = written[ino]
=============================================================================
