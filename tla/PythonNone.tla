------------------------------ MODULE PythonNone ------------------------------
(* Python's None: a field, file, record or answer that is absent. *)
CONSTANT None
=============================================================================
