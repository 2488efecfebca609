------------------------------ MODULE FbStatus ------------------------------
(***************************************************************************)
(* Status vectors: the chain of errors and warnings at the end of every    *)
(* op_response, as the parser of internal/wire/status.go understands it    *)
(* and as the driver tells it to its caller (internal/errmsg).             *)
(***************************************************************************)
EXTENDS Integers, Sequences

CONSTANTS
  Templates,   \* message templates by code: sequences of words and placeholders
  States       \* SQLSTATEs by code

\* The tags of a vector, with their numbers on the wire.
IscArgEnd == 0
IscArgGds == 1
IscArgNumber == 4
IscArgWarning == 18
IscArgSQLState == 19
IscArgString == {2, 3, 5}     \* string, cstring, interpreted

NoState == <<>>

----------------------------------------------------------------------------
(* The parser: one item at a time.  cur says what the arguments belong to. *)

\* An argument is a number or a string.
Number(n) == [num |-> TRUE, v |-> <<<<0, n, 0>>>>]
String(s) == [num |-> FALSE, v |-> s]

Entry(code) == [code |-> code, state |-> NoState, params |-> <<>>]

StartVector == [errors |-> <<>>, warnings |-> <<>>, cur |-> "none", isWarning |-> FALSE]

\* A code of zero opens no entry: what follows belongs to nothing.
gdsItem(p, list, code) ==
  LET q == [p EXCEPT !.isWarning = (list = "warnings")]
  IN IF code = 0 THEN [q EXCEPT !.cur = "none"]
     ELSE [q EXCEPT !.cur = list, ![list] = Append(@, Entry(code))]

\* Mutant of argument: it goes to the first error.
argumentToFirst(p, v) ==
  IF p.cur = "none" THEN p ELSE [p EXCEPT ![p.cur][1].params = Append(@, v)]

\* An argument of the current entry.  (The entry's Message is its strings again.)
argument(p, v) ==
  IF p.cur = "none" THEN p
  ELSE [p EXCEPT ![p.cur][Len(p[p.cur])].params = Append(@, v)]

\* isc_arg_sql_state goes to the last entry of its list even after a code of zero.
sqlStateItem(p, s) ==
  LET list == IF p.isWarning THEN "warnings" ELSE "errors"
  IN IF p[list] = <<>> THEN p ELSE [p EXCEPT ![list][Len(p[list])].state = s]

\* Items whose value is a word, those of unknown tag included, and items whose
\* value is a string.
wordItem(p, tag, v) ==
  CASE tag = IscArgGds     -> gdsItem(p, "errors", v)
    [] tag = IscArgWarning -> gdsItem(p, "warnings", v)
    [] tag = IscArgNumber  -> argument(p, Number(v))
    [] OTHER               -> p

stringItem(p, tag, s) == IF tag = IscArgSQLState THEN sqlStateItem(p, s) ELSE argument(p, String(s))

----------------------------------------------------------------------------
(* What the caller is told *)

HasError(sv) == sv.errors # <<>> /\ sv.errors[1].code # 0

Template(code) == IF code \in DOMAIN Templates THEN Templates[code] ELSE <<>>

GDSCode(sv) == IF HasError(sv) THEN sv.errors[1].code ELSE 0

\* The vector's own SQLSTATE first, then the table's.
SQLStateOfCode(code) == IF code \in DOMAIN States THEN States[code] ELSE NoState
SQLState(sv) ==
  IF ~HasError(sv) THEN NoState
  ELSE IF sv.errors[1].state # NoState THEN sv.errors[1].state
  ELSE SQLStateOfCode(sv.errors[1].code)

\* A placeholder is a number: @n is the n-th argument, or stays if there is none.
Render(tmpl, params) ==
  [i \in DOMAIN tmpl |->
     LET n == tmpl[i]
     IN IF n \in 1..Len(params) THEN <<"arg", params[n]>> ELSE <<"tmpl", n>>]

\* An entry without a template shows its code and its strings, or its numbers
\* if it has no string.
isString(p) == ~p.num /\ p.v # <<>>
appendMessage(e) ==
  LET strings == SelectSeq(e.params, isString)
      shown == IF strings # <<>> THEN strings ELSE SelectSeq(e.params, LAMBDA p : p.num)
  IN IF Template(e.code) # <<>> THEN Render(Template(e.code), e.params)
     ELSE <<<<"code", e.code>>>> \o [i \in DOMAIN shown |-> <<"arg", shown[i]>>]

Error(sv) == [i \in DOMAIN sv.errors |-> appendMessage(sv.errors[i])]
=============================================================================
