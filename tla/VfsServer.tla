----------------------------- MODULE VfsServer ------------------------------
(***************************************************************************)
(* The file server (userspace/vfs_server/server.c): a table of files and a *)
(* table of descriptors, each filled from the front and never emptied.     *)
(* The request loop calls vfs_create and vfs_open with what a message      *)
(* holds; it answers a read request without calling vfs_read, which the    *)
(* tests call.  Sizes and offsets are in units of the instance.            *)
(***************************************************************************)
EXTENDS Integers, FiniteSetsExt

CONSTANTS
  MaxFiles,    \* MAX_FILES (64)
  MaxFd,       \* MAX_FD (32)
  Names,       \* names of files
  FileSizes,   \* sizes that files are created with
  MaxFrame,    \* 0x100000: sizes from here on are refused
  NoFile, NoFd

FileRec == [name : Names, size : Nat, used : Nat]

FdRec == [file_id : Nat, offset : Nat]

ASSUME VfsAssumption ==
  /\ MaxFiles \in Nat /\ MaxFd \in Nat /\ FileSizes \subseteq Nat
  /\ NoFile \notin FileRec /\ NoFd \notin FdRec

Files == 0 .. (MaxFiles - 1)

Fds == 0 .. (MaxFd - 1)

VARIABLES
  files,   \* files[i]: [name, size, used] or NoFile
  fds,     \* fds[d]: [file_id, offset] or NoFd
  asked    \* asked[d]: the name descriptor d was opened under (history)

fvars == <<files, fds, asked>>

FInit ==
  /\ files = [i \in Files |-> NoFile]
  /\ fds = [d \in Fds |-> NoFd]
  /\ asked = [d \in Fds |-> NoFd]

FreeFiles == {i \in Files : files[i] = NoFile}

FreeFds == {d \in Fds : fds[d] = NoFd}

\* frame_cap_is_valid for a capability other than 0
frame_cap_is_valid(len) == len < MaxFrame

\* Names are not compared: a second file of the same name is another file.
vfs_create(name, size) ==
  /\ FreeFiles # {}
  /\ frame_cap_is_valid(size)
  /\ files' = [files EXCEPT ![Min(FreeFiles)] = [name |-> name, size |-> size, used |-> 0]]
  /\ UNCHANGED <<fds, asked>>

Named(name) == {i \in Files \ FreeFiles : files[i].name = name}

\* Slip: the last file of the name is opened.
LastNamed(name) == Max(Named(name))

\* The loop opens the first file of the name.
FirstNamed(name) == Min(Named(name))

vfs_open(name) ==
  /\ Named(name) # {}
  /\ FreeFds # {}
  /\ fds' = [fds EXCEPT ![Min(FreeFds)] = [file_id |-> FirstNamed(name), offset |-> 0]]
  /\ asked' = [asked EXCEPT ![Min(FreeFds)] = name]
  /\ UNCHANGED files

\* A read is cut at the end of what has been written.
Cut(d, len) ==
  LET f == files[fds[d].file_id]
  IN  IF fds[d].offset + len > f.used THEN f.used - fds[d].offset ELSE len

vfs_read(d, len) ==
  /\ fds[d] # NoFd
  /\ frame_cap_is_valid(Cut(d, len))
  /\ fds[d].offset + Cut(d, len) <= files[fds[d].file_id].size
  /\ fds' = [fds EXCEPT ![d].offset = @ + Cut(d, len)]
  /\ UNCHANGED <<files, asked>>

FNext ==
  \/ \E name \in Names, size \in FileSizes : vfs_create(name, size)
  \/ \E name \in Names : vfs_open(name)
  \/ \E d \in Fds, len \in FileSizes : vfs_read(d, len)

FSpec == FInit /\ [][FNext]_fvars

-----------------------------------------------------------------------------

\* A descriptor designates the first file created under the name it was opened
\* with, and goes on to do so when files of that name are created later; its
\* offset stays within what the file holds.
DescriptorKeepsFile ==
  \A d \in Fds \ FreeFds :
    /\ Named(asked[d]) # {}
    /\ fds[d].file_id = Min(Named(asked[d]))
    /\ fds[d].offset <= files[fds[d].file_id].used
    /\ files[fds[d].file_id].used <= files[fds[d].file_id].size
=============================================================================
