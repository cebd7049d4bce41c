------------------------------ MODULE Optional ------------------------------
(***************************************************************************)
(* Python's None: the value of a field, a result or a table row that is    *)
(* not there.                                                              *)
(***************************************************************************)
CONSTANT None

\* The value of an optional field, or what the code falls back to.
OrElse(value, default) == IF value = None THEN default ELSE value
=============================================================================
