----------------------------- MODULE Validation -----------------------------
(***************************************************************************)
(* The rules a payload has to keep: those of the domain (internal/domain), *)
(* which decide between a write and a 422, and the CHECK constraints of    *)
(* the schema, which would turn what slips past them into a 500.           *)
(*                                                                         *)
(* A text is what the rules can tell apart: how many blanks stand around   *)
(* it, how many characters are between them, how many bytes UTF-8 takes    *)
(* for each, and whether one of them is U+0000.                            *)
(***************************************************************************)
EXTENDS Naturals

CONSTANTS
  Lengths,  \* numbers of characters texts have
  Widths,   \* bytes of a character
  Pads,     \* numbers of blanks around a text
  Years     \* birth years

ASSUME CharactersTakeBytes == Widths \subseteq Nat \ {0}
ASSUME SizesAreNumbers == Lengths \cup Pads \cup Years \subseteq Nat

Texts ==
  {t \in [pad: Pads, chars: Lengths, width: Widths, nul: BOOLEAN] :
     t.nul => t.chars > 0 /\ t.width = 1}

(* A field that is missing, or a body that is `null`, decodes to a text of *)
(* no characters and to the year 0.                                        *)
GroupBodies == [name: Texts]
PersonBodies == [first_name: Texts, last_name: Texts, birth_year: Years]

TrimSpace(text) == [text EXCEPT !.pad = 0]
Len8(text) == text.pad + text.chars * text.width  \* len of Go
CharLength(text) == text.pad + text.chars         \* char_length of SQL

-----------------------------------------------------------------------------
(* The domain.                                                             *)

NameMinLen == 1
NameMaxLen == 255
BirthYearLo == 1900
BirthYearHi == 2100

NameErrors(field, text) ==
  LET length == Len8(TrimSpace(text))
  IN IF length < NameMinLen THEN {<<field, "must not be empty">>}
     ELSE IF length > NameMaxLen THEN {<<field, "must be at most 255 characters">>}
     ELSE {}

YearErrors(year) ==
  IF year < BirthYearLo \/ year > BirthYearHi
    THEN {<<"birth_year", "must be between 1900 and 2100">>} ELSE {}

GroupErrors(body) == NameErrors("name", body.name)

(* The nil group is refused before, as a group that does not exist. *)
PersonErrors(body) ==
  NameErrors("first_name", body.first_name) \cup NameErrors("last_name", body.last_name)
    \cup YearErrors(body.birth_year)

(* Mutant: the blanks are only trimmed for the checks. *)
StoredGroupAsSent(body) == body

(* What is written once the rules are kept. *)
StoredGroup(body) == [name |-> TrimSpace(body.name)]
StoredPerson(body) ==
  [first_name |-> TrimSpace(body.first_name), last_name |-> TrimSpace(body.last_name),
   birth_year |-> body.birth_year]

-----------------------------------------------------------------------------
(* The schema.                                                             *)

NameChecked(text) == CharLength(text) \in 1..255
GroupRowChecked(row) == NameChecked(row.name)
PersonRowChecked(row) ==
  NameChecked(row.first_name) /\ NameChecked(row.last_name) /\ row.birth_year \in 1900..2100

(* PostgreSQL has no U+0000 in a text and refuses the parameter itself. *)
GroupRowHasNul(row) == row.name.nul
PersonRowHasNul(row) == row.first_name.nul \/ row.last_name.nul
=============================================================================
