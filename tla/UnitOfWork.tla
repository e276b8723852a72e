----------------------------- MODULE UnitOfWork -----------------------------
(***************************************************************************)
(* The unit of work of service/uow.py over the SQLAlchemy session of       *)
(* store/orm.py, as operators: what a flush writes, and how a commit ends. *)
(*                                                                         *)
(* A unit of work loads rows, changes attributes of the loaded objects and *)
(* flushes at commit.  SQLAlchemy's UPDATE names only the attributes whose *)
(* value differs from the one LOADED, so what a commit does to a column    *)
(* depends on what the transaction read, not on what is in the database.   *)
(***************************************************************************)

\* A column after the flush of an object loaded with value loaded and
\* assigned the value assigned, when the committed value is now current.
Flushed(current, loaded, assigned) ==
    IF assigned = loaded THEN current ELSE assigned

\* How "session.commit()" ends for the caller of "with UOW() as uow".
\*   Committed  the changes are in the database
\*   Duplicate  IntegrityError naming a unique constraint: AlreadyExists
\*   Swallowed  any other IntegrityError: rolled back, and no exception
Committed == "committed"
Duplicate == "duplicate"
Swallowed == "swallowed"
CommitResults == {Committed, Duplicate, Swallowed}

\* Mutant: no foreign key is enforced.
CommitEndsUnchecked(uniqueBroken, otherBroken) ==
    IF uniqueBroken THEN {Duplicate} ELSE {Committed}

\* The ways a commit may end: the database reports the first constraint it
\* finds broken, and the order of the INSERTs is not specified.
CommitEnds(uniqueBroken, otherBroken) ==
    (IF uniqueBroken THEN {Duplicate} ELSE {})
      \cup (IF otherBroken THEN {Swallowed} ELSE {})
      \cup (IF uniqueBroken \/ otherBroken THEN {} ELSE {Committed})
=============================================================================
