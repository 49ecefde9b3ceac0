----------------------------- MODULE OwnedStrings -----------------------------
(***************************************************************************)
(* The C strings that the classes of src/dart/bin own by hand: OSError,    *)
(* DFE, IsolateGroupData, IsolateData, the two scopes that convert strings *)
(* for Windows.  Only the blocks they are in are modelled.                 *)
(*                                                                         *)
(* The argument of a setter is a string of the caller, never the string    *)
(* the setter is about to free.  Utils::StrDup is in the library; of NULL  *)
(* it makes NULL.                                                          *)
(***************************************************************************)
EXTENDS FiniteSets, Integers

CONSTANTS
    Strings,     \* BOUND: the blocks strings are allocated in
    NULL

ASSUME StringsAssumption == NULL \notin Strings

\* The fields, each of an object of its own.
Fields == {"message_", "frontend_filename_", "resolved_packages_config_",
           "packages_file_", "utf8_", "wide_"}

VARIABLES
    objects,      \* the fields whose object exists
    field,        \* the string in each
    malloced,     \* the strings that are allocated
    callers       \* those that a caller of release() has

strings == <<objects, field, malloced, callers>>

StringsInit ==
    /\ objects = {} /\ field = [f \in Fields |-> NULL]
    /\ malloced = {} /\ callers = {}

\* field f gets string s, NULL or a new one, after the strings in F are freed.
Store(f, s, F) ==
    /\ s \in (Strings \ malloced) \cup {NULL}
    /\ field' = [field EXCEPT ![f] = s]
    /\ malloced' = (malloced \ F) \cup ({s} \ {NULL})
    /\ UNCHANGED callers

\* What a constructor leaves: the message of an OSError is freed before it is
\* set, so that it is NULL before; a scope holds the converted string.
ConstructField(f, s) ==
    /\ f \notin objects
    /\ CASE f = "message_" -> TRUE
         [] f \in {"utf8_", "wide_"} -> s # NULL
         [] OTHER -> s = NULL
    /\ Store(f, s, {})
    /\ objects' = objects \cup {f}

\* The destructors free what the object still has.
DestructField(f) ==
    /\ f \in objects
    /\ Store(f, NULL, {field[f]})
    /\ objects' = objects \ {f}

\* MUTANT: the message there was is not freed for a NULL one.
SetMessage_KeepsOld(s) ==
    /\ "message_" \in objects
    /\ Store("message_", s, IF s = NULL THEN {} ELSE {field["message_"]})
    /\ UNCHANGED objects

SetMessage(s) ==
    /\ "message_" \in objects
    /\ Store("message_", s, {field["message_"]})
    /\ UNCHANGED objects

set_frontend_filename(s) ==
    /\ "frontend_filename_" \in objects
    /\ Store("frontend_filename_", s, {field["frontend_filename_"]})
    /\ UNCHANGED objects

set_resolved_packages_config(s) ==
    /\ "resolved_packages_config_" \in objects
    /\ Store("resolved_packages_config_", s, {field["resolved_packages_config_"]})
    /\ UNCHANGED objects

\* The old name is freed for a new one, and not for NULL.
UpdatePackagesFile(s) ==
    /\ "packages_file_" \in objects
    /\ Store("packages_file_", s,
             IF s = NULL THEN {} ELSE {field["packages_file_"]})
    /\ UNCHANGED objects

\* MUTANT: the scope keeps the string as well.
Release_Keeps ==
    /\ "utf8_" \in objects /\ field["utf8_"] # NULL
    /\ callers' = callers \cup {field["utf8_"]}
    /\ UNCHANGED <<objects, field, malloced>>

\* WideToUtf8Scope::release.
release ==
    /\ "utf8_" \in objects /\ field["utf8_"] # NULL
    /\ callers' = callers \cup {field["utf8_"]}
    /\ field' = [field EXCEPT !["utf8_"] = NULL]
    /\ UNCHANGED <<objects, malloced>>

FreeReleased(s) ==
    /\ s \in callers
    /\ callers' = callers \ {s}
    /\ malloced' = malloced \ {s}
    /\ UNCHANGED <<objects, field>>

StringsNext ==
    \/ \E s \in Strings \cup {NULL} :
        \/ \E f \in Fields : ConstructField(f, s)
        \/ SetMessage(s) \/ UpdatePackagesFile(s)
        \/ s # NULL /\ (set_frontend_filename(s) \/ set_resolved_packages_config(s))
        \/ FreeReleased(s)
    \/ \E f \in Fields : DestructField(f)
    \/ release

StringsSpec == StringsInit /\ [][StringsNext]_strings

-----------------------------------------------------------------------------
(* Properties.                                                             *)

FieldStrings == {field[f] : f \in Fields} \ {NULL}

\* A string that somebody will free is allocated and nobody else's, so that
\* no string is freed twice and no field is left with one that was freed.
StringsHaveOneOwner ==
    /\ FieldStrings \cup callers \subseteq malloced
    /\ FieldStrings \cap callers = {}
    /\ \A f, g \in Fields : field[f] = field[g] /\ f # g => field[f] = NULL
    /\ \A f \in Fields \ objects : field[f] = NULL

\* The strings nobody will free.
LostStrings == malloced \ (FieldStrings \cup callers)

\* One call loses a string: a NULL name of a packages file.  No other setter
\* and no destructor does, whatever was set before.
OnlyNullNameLoses ==
    [][LostStrings' \subseteq LostStrings \/ UpdatePackagesFile(NULL)]_strings

=============================================================================
