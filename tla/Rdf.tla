-------------------------------- MODULE Rdf --------------------------------
(***************************************************************************)
(* RDF terms, statements and statement patterns, as the enilink platform   *)
(* sees them through the data managers of KOMMA: the part of that library  *)
(* (IReference, IStatement, IStatementPattern, match, hasMatch) every      *)
(* module here is written against.                                         *)
(*                                                                         *)
(* A term is a member of one of three sets of model values: named          *)
(* resources (getURI() is not null), blank nodes (getURI() is null) and    *)
(* literals.  A predicate is one of the four the code tells apart; "link"  *)
(* stands for every predicate that has no meaning to access control.       *)
(***************************************************************************)
EXTENDS FiniteSets

CONSTANTS
  Named,      \* the named resources
  Blank,      \* the blank nodes
  Literal,    \* the literals
  Null         \* the null of a statement pattern: matches every term

ASSUME TermsDisjoint ==
  /\ Named \cap Blank = {}
  /\ (Named \cup Blank) \cap Literal = {}
  /\ Null \notin Named \cup Blank \cup Literal

ASSUME BlankFinite == IsFiniteSet(Blank)

Ref == Named \cup Blank
Term == Ref \cup Literal
Predicate == {"link", "accessTo", "accessToClass", "mode"}

Statement == [s : Ref, p : Predicate, o : Term]
Pattern == [s : Ref \cup {Null}, p : Predicate \cup {"any"}, o : Term \cup {Null}]

Matches(st, pat) ==
  /\ pat.s \in {Null, st.s}
  /\ pat.p \in {"any", st.p}
  /\ pat.o \in {Null, st.o}

\* IDataManager.match: the statements of a store a pattern selects.
Matching(pat, stmts) == {st \in stmts : Matches(st, pat)}

\* hasMatch(null, null, r): some statement has r as its object.
IsObject(r, stmts) == \E st \in stmts : st.o = r

\* hasMatch(r, null, null): some statement is about r.
IsSubject(r, stmts) == \E st \in stmts : st.s = r

=============================================================================
