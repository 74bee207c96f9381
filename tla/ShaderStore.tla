----------------------------- MODULE ShaderStore -----------------------------
(***************************************************************************)
(* src/src/cmp_shader_cache.c: a list of shaders by key, and its file,     *)
(* which is written from the start each time.  The process may crash while *)
(* it writes, or the disk be full: the file then ends in the middle of an  *)
(* entry.  Of a shader only its type is written, which is in a block of    *)
(* its own, the handle; a load goes on when it cannot allocate that.       *)
(***************************************************************************)
EXTENDS Naturals, Sequences, SequencesExt

CONSTANTS
  Keys,
  Types,       \* the types that the cmp_shader_init functions give
  NoType,      \* 0: what is written for a shader without a handle, and what
               \* the local variable for the type holds before it is read
  MaxEntries   \* a bound of the model

VARIABLES
  entries,   \* cache->head: records of a key and a type, the newest first
  file,      \* the whole entries of the file
  torn,      \* the key of the entry it ends in the middle of, or none
  stored,    \* every key and type the application has stored together
  starved    \* the keys whose shader a load could not allocate the handle of

shaderVars == <<entries, file, torn, stored, starved>>

Entry(k, t) == [key |-> k, type |-> t]

ShadersInit ==
  entries = << >> /\ file = << >> /\ torn = {} /\ stored = {} /\ starved = {}

StoreEntry ==
  /\ Len(entries) < MaxEntries
  /\ \E k \in Keys, t \in Types \cup {NoType} :
       /\ entries' = <<Entry(k, t)>> \o entries
       /\ stored' = stored \cup {Entry(k, t)}
  /\ UNCHANGED <<file, torn, starved>>

\* cmp_shader_cache_save_to_disk: the head of the list comes first in the file.
SaveEntries ==
  \E n \in 0 .. Len(entries) :
    /\ file' = SubSeq(entries, 1, n)
    /\ torn' \in IF n < Len(entries) THEN {{}, {entries[n + 1].key}} ELSE {{}}
    /\ UNCHANGED <<entries, stored, starved>>

\* A plausible bug: the entry is stored before it is known that it was read.
LoadedWithTorn ==
  Reverse(file) \o [i \in 1 .. IF torn = {} THEN 0 ELSE 1 |->
                      Entry(CHOOSE k \in torn : TRUE, NoType)]

\* What a load adds: each entry goes to the front of the list.
Loaded == Reverse(file)

\* Entries of which those at bare have lost their handle.
WithoutHandles(read, bare) ==
  [i \in DOMAIN read |-> IF i \in bare THEN Entry(read[i].key, NoType) ELSE read[i]]

\* A load that runs out of memory for an entry has added the first entries of the
\* file only.  One that runs out of it for the handle of a shader does not look at
\* what cmp_shader_init returned, and stores a shader without a handle.
LoadEntries ==
  \E n \in 0 .. Len(Loaded) :
    LET read == SubSeq(Loaded, Len(Loaded) - n + 1, Len(Loaded)) IN
    /\ Len(entries) + n <= MaxEntries
    /\ \E bare \in SUBSET {i \in DOMAIN read : read[i].type # NoType} :
         /\ entries' = WithoutHandles(read, bare) \o entries
         /\ starved' = starved \cup {read[i].key : i \in bare}
    /\ UNCHANGED <<file, torn, stored>>

\* The process ends, or crashes, and another begins with an empty cache.
Restart ==
  /\ entries' = << >>
  /\ UNCHANGED <<file, torn, stored, starved>>

ShadersNext == StoreEntry \/ SaveEntries \/ LoadEntries \/ Restart
ShadersSpec == ShadersInit /\ [][ShadersNext]_shaderVars

-----------------------------------------------------------------------------
(* A shader that is retrieved is one that was stored under its key, in this  *)
(* process or one before it, however the writing of the file was cut short;  *)
(* or it has lost its type to a load that ran out of memory and went on      *)
(* (lines 193 to 201), and then its key was stored with some other type.  No *)
(* crash and no full disk alone comes to that.                               *)
RetrievedWasStored ==
  /\ \A i \in DOMAIN entries :
       \/ entries[i] \in stored
       \/ entries[i].type = NoType /\ entries[i].key \in starved
  /\ \A k \in starved : \E e \in stored : e.key = k /\ e.type # NoType
=============================================================================
