------------------------------ MODULE FileMap ------------------------------
(***************************************************************************)
(* Mapping a file into memory, lor_mmap_file and lor_mmap_unmap of         *)
(* src/memory.c on POSIX, one system call at a time. Each may fail. The    *)
(* mode of a mapping only selects flags, and is left out.                  *)
(***************************************************************************)
EXTENDS Integers

CONSTANTS
    FileSizes,  \* what fstat may find, 0 included
    NoData      \* NULL

\* st_size is a signed number, and no mapping is at NULL.
ASSUME FileAssumption == FileSizes \subseteq Int /\ NoData # "mapping"

VARIABLES
    at,    \* the system call that is next, or "returned"
    fd,    \* the descriptor is open
    found, \* st.st_size
    file,  \* the LorMmap structure
    mapped \* history: the size of the mapping that the system has made, or 0

fileVars == <<at, fd, found, file, mapped>>

NoFile == [data |-> NoData, size |-> 0]

FileInit ==
    /\ at = "returned" /\ fd = FALSE /\ found = 0
    /\ file = NoFile /\ mapped = 0
----------------------------------------------------------------------------
\* lor_mmap_file with a structure that maps nothing.
Open ==
    /\ at = "returned" /\ file = NoFile
    /\ \/ UNCHANGED <<at, fd>>
       \/ at' = "fstat" /\ fd' = TRUE
    /\ UNCHANGED <<found, file, mapped>>

\* Mutant: an empty file is not refused.
Refuses(size, failed) == failed

\* fstat fails, or the file is empty.
Refused(size, failed) == failed \/ size <= 0

Fstat ==
    /\ at = "fstat"
    /\ \E size \in FileSizes, failed \in BOOLEAN :
          IF Refused(size, failed)
          THEN at' = "returned" /\ fd' = FALSE /\ UNCHANGED found
          ELSE at' = "mmap" /\ found' = size /\ UNCHANGED fd
    /\ UNCHANGED <<file, mapped>>

\* mmap; the descriptor is closed, and a failure clears the structure.
Mmap ==
    /\ at = "mmap"
    /\ at' = "returned" /\ fd' = FALSE
    /\ \/ UNCHANGED <<file, mapped>>
       \/ /\ file' = [data |-> "mapping", size |-> found]
          /\ mapped' = found
    /\ UNCHANGED found

\* lor_mmap_unmap, of nothing as well.
Unmap ==
    /\ at = "returned"
    /\ IF file.data = NoData THEN UNCHANGED <<file, mapped>>
       ELSE mapped' = 0 /\ file' = NoFile
    /\ UNCHANGED <<at, fd, found>>

FileNext == Open \/ Fstat \/ Mmap \/ Unmap

FileSpec == FileInit /\ [][FileNext]_fileVars
----------------------------------------------------------------------------
(* Properties.                                                              *)

\* When a call has returned, whichever system call failed, no descriptor is left open,
\* and the structure describes the mapping there is, which is not empty.
FileSettled ==
    at = "returned" =>
        /\ ~fd
        /\ file.size = mapped
        /\ file.data # NoData <=> mapped > 0
=============================================================================
