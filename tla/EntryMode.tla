------------------------------ MODULE EntryMode ------------------------------
(***************************************************************************)
(* The mode of an entry: unix_permissions of the builders and what         *)
(* finish() stores of it (writer.rs), ZipFileHeaderRecord::mode            *)
(* (archive.rs) and mode.rs.  A number is the set of its bits.             *)
(***************************************************************************)
EXTENDS Integers

CONSTANTS
  Modes,         (* arguments of unix_permissions                          *)
  Attributes     (* external attributes that other producers write         *)

Bits16 == 0..15
Bits32 == 0..31

ASSUME ModeAssumption ==
  Modes \subseteq SUBSET Bits16 /\ Attributes \subseteq SUBSET Bits32

VARIABLES
  is_dir,        (* does the path end in '/'?                              *)
  made_by,       (* high byte of version_made_by                           *)
  external,      (* external_file_attrs                                    *)
  asked          (* history: the last argument of unix_permissions, if any *)

modeVars == <<is_dir, made_by, external, asked>>

CREATOR_FAT == 0
CREATOR_UNIX == 3
CREATOR_NTFS == 11
CREATOR_VFAT == 14
CREATOR_MACOS == 19

S_IFMT == {12, 13, 14, 15}
S_IFSOCK == {15, 14}
S_IFLNK == {15, 13}
S_IFREG == {15}
S_IFBLK == {14, 13}
S_IFDIR == {14}
S_IFCHR == {13}
S_IFIFO == {12}
Special == {11, 10, 9}             \* S_ISUID, S_ISGID, S_ISVTX
Permissions == 0..8
WriteBits == {1, 4, 7}
MSDOS_DIR == {4}
MSDOS_READONLY == {0}

FileTypes ==
  {S_IFSOCK, S_IFLNK, S_IFREG, S_IFBLK, S_IFDIR, S_IFCHR, S_IFIFO}

\* Mutant: a type must be one of the usual three, others become files.
UnixModeOfUsual(m) ==
  (m \cap (Permissions \cup Special))
    \cup (IF m \cap S_IFMT \in {S_IFREG, S_IFDIR, S_IFLNK} THEN m \cap S_IFMT ELSE S_IFREG)

\* unix_mode_to_file_mode
UnixMode(m) ==
  (m \cap (Permissions \cup Special))
    \cup (IF m \cap S_IFMT \in FileTypes THEN m \cap S_IFMT ELSE S_IFREG)

\* msdos_mode_to_file_mode: rwx, r or rw for all.
MsdosMode(m) ==
  IF m \cap MSDOS_DIR # {} THEN S_IFDIR \cup Permissions
  ELSE IF m \cap MSDOS_READONLY # {} THEN S_IFREG \cup {2, 5, 8}
  ELSE S_IFREG \cup {1, 2, 4, 5, 7, 8}

\* 0o644
Basic == {2, 5, 7, 8}

\* ZipFileHeaderRecord::mode
Mode ==
  LET stored == CASE made_by \in {CREATOR_UNIX, CREATOR_MACOS} ->
                       UnixMode({b - 16 : b \in external \cap 16..31})
                  [] made_by \in {CREATOR_NTFS, CREATOR_VFAT, CREATOR_FAT} ->
                       MsdosMode(external)
                  [] OTHER -> Basic
  IN  IF is_dir THEN stored \cup S_IFDIR ELSE stored

-----------------------------------------------------------------------------
(* An entry on its way to a reader.                                        *)

\* new_file or new_dir, nothing said about the mode.
ModeInit ==
  /\ is_dir \in BOOLEAN
  /\ made_by = CREATOR_FAT /\ external = {} /\ asked = {}

\* unix_permissions(m), as finish() will store it; the last call counts.
Permit(m) ==
  /\ asked' = {m}
  /\ made_by' = CREATOR_UNIX
  /\ external' = {b + 16 : b \in m} \cap Bits32
  /\ UNCHANGED is_dir

\* Another producer's entry.
Produced(system, attributes) ==
  /\ asked' = {}
  /\ made_by' = system /\ external' = attributes
  /\ UNCHANGED is_dir

ModeNext ==
  \/ \E m \in Modes : Permit(m)
  \/ \E attributes \in Attributes, system \in {CREATOR_FAT, CREATOR_UNIX, 10,
         CREATOR_NTFS, CREATOR_VFAT, CREATOR_MACOS} : Produced(system, attributes)

ModeSpec == ModeInit /\ [][ModeNext]_modeVars

-----------------------------------------------------------------------------
(* Properties.                                                             *)

(***************************************************************************)
(* ZipFileBuilder::unix_permissions and ZipFileHeaderRecord::mode: what    *)
(* was asked for is read back, the special bits and any of the seven file  *)
(* types included, as long as the type does not contradict the path; bits  *)
(* without a type are those of a file.  A producer on MS-DOS who said      *)
(* read-only is not read as writable.                                      *)
(***************************************************************************)
PermissionsSurvive ==
  /\ \A m \in asked :
       /\ Mode \ S_IFMT = m \ S_IFMT
       /\ m \cap S_IFMT \in FileTypes /\ (is_dir => m \cap S_IFMT = S_IFDIR) => Mode = m
       /\ m \cap S_IFMT = {} /\ ~is_dir => Mode \cap S_IFMT = S_IFREG
  /\ made_by \in {CREATOR_FAT, CREATOR_VFAT, CREATOR_NTFS} =>
       (0 \in external /\ 4 \notin external => Mode \cap WriteBits = {})

(***************************************************************************)
(* "Check if it's a directory by filename ending with '/'" (archive.rs):   *)
(* an entry whose path says directory has the file type of a directory,    *)
(* among them those that new_dir of this crate makes.                      *)
(***************************************************************************)
DirectoriesAreDirectories == is_dir => Mode \cap S_IFMT = S_IFDIR

=============================================================================
