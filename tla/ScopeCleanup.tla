--------------------------- MODULE ScopeCleanup ---------------------------
(***************************************************************************)
(* Scope strings of an upstream provider (auth_provider.rs), as pure      *)
(* operators: AuthProvider::cleanup_scope, the scope lookup_config builds *)
(* from a discovery document, and the normal form the spec asks for.      *)
(* ProviderConfig applies them to the requests it stores.                 *)
(*                                                                         *)
(* A string is a sequence of characters.  Scope words that discovery      *)
(* returns (openid, profile, email) are single non-whitespace symbols;    *)
(* cleanup_scope only tells a space, other whitespace and the rest apart, *)
(* so this loses nothing it computes.                                     *)
(***************************************************************************)
EXTENDS Naturals, Sequences, SequencesExt

Space == " "
Tab == "\t"
Plus == "+"

(* The characters modelled for which char::is_whitespace holds *)
Whitespace == {Space, Tab}

(* lookup_config asks for these, in this order, when advertised *)
DiscoveryScopes == <<"openid", "profile", "email">>

(* str::split(c): the pieces between occurrences of c, one more piece    *)
(* than there are occurrences, empty pieces included.                     *)
RECURSIVE Split(_, _)
Split(s, c) ==
    LET at == SelectInSeq(s, LAMBDA x : x = c)
    IN  IF at = 0 THEN <<s>>
        ELSE <<SubSeq(s, 1, at - 1)>> \o Split(SubSeq(s, at + 1, Len(s)), c)

(* str::trim: drop leading and trailing whitespace *)
Trim(s) ==
    LET first == SelectInSeq(s, LAMBDA x : x \notin Whitespace)
        last == SelectLastInSeq(s, LAMBDA x : x \notin Whitespace)
    IN  IF first = 0 THEN <<>> ELSE SubSeq(s, first, last)

(* [&str]::join(sep) *)
RECURSIVE Join(_, _)
Join(parts, sep) ==
    IF Len(parts) <= 1 THEN FlattenSeq(parts)
    ELSE Head(parts) \o <<sep>> \o Join(Tail(parts), sep)

(* Mutant: every piece kept, empty ones included *)
cleanup_scope_no_filter(scope) ==
    LET pieces == Split(scope, Space)
    IN  Join([i \in 1..Len(pieces) |-> Trim(pieces[i])], Plus)

(* Mutant: the pieces joined with ',' *)
cleanup_scope_comma_join(scope) ==
    LET kept == SelectSeq(Split(scope, Space), LAMBDA p : p # <<>>)
    IN  Join([i \in 1..Len(kept) |-> Trim(kept[i])], ",")

(* AuthProvider::cleanup_scope: split on ' ', keep the non-empty pieces  *)
(* (tested before trimming), trim each, join with '+'.                    *)
cleanup_scope(scope) ==
    LET kept == SelectSeq(Split(scope, Space), LAMBDA p : p # <<>>)
    IN  Join([i \in 1..Len(kept) |-> Trim(kept[i])], Plus)

(* Mutant: the words pushed without their trailing space *)
LookupScope_no_separator(supported) ==
    SelectSeq(DiscoveryScopes, LAMBDA w : w \in supported)

(* lookup_config: push "<w> " for each of openid, profile, email that the *)
(* discovery document's scopes_supported contains.                         *)
LookupScope(supported) ==
    FlattenSeq([i \in 1..Len(DiscoveryScopes) |->
                  IF DiscoveryScopes[i] \in supported
                  THEN <<DiscoveryScopes[i], Space>> ELSE <<>>])

(* The normal form the spec asks for: the tokens separated by any         *)
(* whitespace, none empty, joined by one '+'.                              *)
RECURSIVE Tokens(_)
Tokens(s) ==
    LET at == SelectInSeq(s, LAMBDA x : x \in Whitespace)
    IN  IF at = 0 THEN IF s = <<>> THEN <<>> ELSE <<s>>
        ELSE (IF at = 1 THEN <<>> ELSE <<SubSeq(s, 1, at - 1)>>)
             \o Tokens(SubSeq(s, at + 1, Len(s)))

NormalForm(s) == Join(Tokens(s), Plus)
=============================================================================
