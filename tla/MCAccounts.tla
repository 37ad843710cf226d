------------------------------ MODULE MCAccounts ------------------------------
(***************************************************************************)
(* Two admins, one in each of two browsers that start logged in, English   *)
(* and Arabic, and requests that meet on the same users, languages and     *)
(* sessions.                                                               *)
(***************************************************************************)
EXTENDS Accounts, TLC

CONSTANTS r1, r2, r3, b1, b2, s1, s2

Three == {r1, r2, r3}
Symmetric3 == Permutations(Three)

Row(n, role, lang) == [name |-> n, email |-> n, role |-> role, lang |-> lang, password |-> Initial]
MCUsers == [u \in UserIds |-> IF u = 1 THEN Row("amal", "admin", 1)
                              ELSE IF u = 2 THEN Row("badr", "admin", Null) ELSE NoUser]
MCLanguages == [l \in LangIds |-> IF l = 1 THEN "en" ELSE IF l = 2 THEN "ar" ELSE NoLang]
MCSessions == [s \in FirstSids |->
    [locale |-> "en", user |-> IF s = s1 THEN 1 ELSE 2, list |-> NoList]]
MCCookies == [b \in Browsers |-> IF b = b1 THEN s1 ELSE s2]
MCRemember == [b \in Browsers |-> IF b = b1 THEN 1 ELSE Null]
MCAccepted == [b \in Browsers |-> "en"]

Person(n, role, lang) == [name |-> n, email |-> n, role |-> role, lang |-> lang]
Csv(names) == [k \in DOMAIN names |-> [name |-> names[k], email |-> IF names[k] = Null THEN "cala" ELSE names[k]]]

Ask(b, op) == [op |-> op, from |-> b]
Switch(b, locale) == [op |-> "switch", from |-> b, locale |-> locale]
SignIn(b, email) == [op |-> "login", from |-> b, email |-> email, remember |-> TRUE]
Register(b, n) == [op |-> "register", from |-> b, new |-> Person(n, "participant", 2)]
StoreUser(b, n, lang) == [op |-> "store", from |-> b, new |-> Person(n, "manager", lang)]
Update(b, u, n, role, lang) ==
    [op |-> "update", from |-> b, user |-> u, new |-> Person(n, role, lang), reset |-> TRUE]
Destroy(b, u) == [op |-> "destroy", from |-> b, user |-> u]
Import(b, names) == [op |-> "import", from |-> b, rows |-> Csv(names), role |-> "participant"]
AddLang(b, c) == [op |-> "addlang", from |-> b, code |-> c]
EditLang(b, l, c) == [op |-> "editlang", from |-> b, lang |-> l, code |-> c]
DropLang(b, l) == [op |-> "droplang", from |-> b, lang |-> l]

Everything ==
    {Ask(b1, "page"), Ask(b1, "logout"), Ask(b1, "download"), Switch(b1, "ar"), Switch(b2, "ar"),
     SignIn(b1, "amal"), Register(b1, "cala"),
     StoreUser(b2, "dana", 2), Update(b1, 2, "cala", "manager", 2), Destroy(b1, 1), Destroy(b1, 2),
     Destroy(b2, 1),
     Import(b1, <<Null, "amal", "cala">>), Import(b1, <<"cala", "dana">>), Import(b2, <<"dana", "cala">>),
     AddLang(b2, "fr"), EditLang(b2, 1, "fr"), DropLang(b2, 2)}

Fetching == {Import(b1, <<"cala">>), Ask(b1, "download")}
=============================================================================
