------------------------------- MODULE FsTree -------------------------------
(***************************************************************************)
(* What include/filesystem.h promises: directories that map names to       *)
(* inodes, files that hold bytes.  Inode numbers are never reused, an      *)
(* unlinked inode keeps existing and a failed call changes nothing.        *)
(* FileSystem.tla, with its block chains, implements this.                 *)
(***************************************************************************)
EXTENDS Integers, Sequences

CONSTANTS
  Inos,     \* inode numbers; ROOT_INO is one of them
  Names,    \* names a directory entry can have
  Bytes     \* what a file holds

VARIABLES
  kind,     \* inode -> 0 (does not exist), 1 (file) or 2 (directory)
  entries,  \* directory -> name -> inode (0: no such entry)
  content,  \* file -> its bytes
  ret       \* result of the last call

vars == <<kind, entries, content, ret>>

ROOT_INO    == 1
INVALID_INO == 0

NoEntries == [n \in Names |-> INVALID_INO]

Init ==
  /\ kind = [i \in Inos |-> 0]
  /\ entries = [i \in Inos |-> NoEntries]
  /\ content = [i \in Inos |-> <<>>]
  /\ ret = 0

Start ==
  /\ kind[ROOT_INO] = 0
  /\ kind' = [kind EXCEPT ![ROOT_INO] = 2]
  /\ UNCHANGED <<entries, content, ret>>

IsDirectory(ino) == ino \in Inos /\ kind[ino] = 2
IsFile(ino)      == ino \in Inos /\ kind[ino] = 1

Create(parent, name, type) ==
  /\ IsDirectory(parent) /\ name \in Names /\ entries[parent][name] = INVALID_INO
  /\ \E new \in Inos :
       /\ kind[new] = 0
       /\ kind' = [kind EXCEPT ![new] = type]
       /\ entries' = [entries EXCEPT ![parent][name] = new]
       /\ ret' = new
  /\ UNCHANGED content

CreateFails(parent, name) ==
  /\ IsDirectory(parent) /\ name \in Names => entries[parent][name] # INVALID_INO
  /\ ret' = INVALID_INO
  /\ UNCHANGED <<kind, entries, content>>

\* The entry is there, and it is not a directory that has entries.
Removable(parent, name) ==
  /\ IsDirectory(parent) /\ name \in Names
  /\ entries[parent][name] # INVALID_INO
  /\ entries[entries[parent][name]] = NoEntries

Unlink(parent, name) ==
  /\ Removable(parent, name)
  /\ entries' = [entries EXCEPT ![parent][name] = INVALID_INO]
  /\ ret' = 0
  /\ UNCHANGED <<kind, content>>

UnlinkFails(parent, name) ==
  ~Removable(parent, name) /\ ret' = -1 /\ UNCHANGED <<kind, entries, content>>

\* The bytes written end up at offset, those before and after stay, and a gap
\* past the old end may hold anything.
Write(ino, offset, src) ==
  LET old == content[ino]
      new == content'[ino]
      end == offset + Len(src)
  IN  /\ IsFile(ino)
      /\ new \in [1 .. (IF end > Len(old) THEN end ELSE Len(old)) -> Bytes]
      /\ \A i \in DOMAIN new :
           IF i \in offset + 1 .. end THEN new[i] = src[i - offset]
           ELSE i <= Len(old) => new[i] = old[i]
      /\ content' = [content EXCEPT ![ino] = new]
      /\ ret' = Len(src)
      /\ UNCHANGED <<kind, entries>>

WriteFails(ino) == ~IsFile(ino) /\ ret' = -1 /\ UNCHANGED <<kind, entries, content>>

-----------------------------------------------------------------------------
CONSTANTS
  CallInos, CallNames, CallTypes, Offsets, Sources   \* arguments of the calls

Next ==
  \/ Start
  \/ \E p \in CallInos, n \in CallNames :
       \/ \E t \in CallTypes : Create(p, n, t)
       \/ CreateFails(p, n)
       \/ Unlink(p, n)
       \/ UnlinkFails(p, n)
  \/ \E i \in CallInos :
       \/ \E o \in Offsets, s \in Sources : Write(i, o, s)
       \/ WriteFails(i)

Spec == Init /\ [][Next]_vars
=============================================================================
