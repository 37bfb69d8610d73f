--------------------------- MODULE MCScriptCache ---------------------------
EXTENDS ScriptCache, TLC

CONSTANTS a, b

Ini(freq, follow, protection) ==
    [validate_timestamps |-> TRUE, revalidate_freq |-> freq,
     revalidate_path |-> follow, file_update_protection |-> protection]

Calls(ops, names, files, contents, turns) ==
    [calls |-> ops \X names, files |-> files, contents |-> contents,
     turns |-> turns]

Changing == Calls({"include", "invalidate"}, {Link}, {a}, 2, FALSE)
Asking == Calls({"include_once", "is_file"}, {Link, a}, {a}, 2, FALSE)
Turning == Calls({"include", "include_once"}, {Link}, {a, b}, 2, TRUE)

Including == Calls({"include"}, {Link}, {a, b}, 2, TRUE)

Default == Ini(1, FALSE, 1)
\* The defaults with shorter times, and with the links followed.
FourCases == {[ini |-> Default, bound |-> Changing],
              [ini |-> Default, bound |-> Asking],
              [ini |-> Ini(1, TRUE, 1), bound |-> Turning],
              [ini |-> Default, bound |-> Including]}

KeysOnly == {[ini |-> Default, bound |-> Turning]}
Often == {[ini |-> Default, bound |-> Changing]}
Unprotected == {[ini |-> Ini(1, FALSE, 0), bound |-> Changing]}

Symmetry == Permutations(Proc)
=============================================================================
