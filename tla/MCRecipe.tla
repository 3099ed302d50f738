------------------------------ MODULE MCRecipe ------------------------------
(* A word that passes for a user and for a host, a user and a host with    *)
(* the names of a -o and of sudo, two ports, two logins, an option of each *)
(* kind attached and apart, and some that are refused.                     *)
EXTENDS Recipe

TypedAccess ==
    {Flag(o) : o \in {"i", "p", "l", "J", "o", "T", "n", "u"}}
    \cup {Word(w) : w \in {"odoo", "22", "/k", "sudo"}}
    \cup {At("odoo", "odoo"), At("port", "22"), Attached("p", "22"), Attached("p", "23"),
         Attached("i", "/k2"), Attached("u", "port"), Attached("n", "H"), Attached("F", "/k"),
         Token("o", "user", "port"), Setting("port", "22"), Setting("connecttimeout", "22"),
         Setting("proxycommand", "/k")}

TypedLaunch ==
    {Word(w) : w \in {"/py", "/odoo-bin", "shell"}}
    \cup {Flag(o) : o \in {"c", "d", "no-http"}}
    \cup {Attached("addons-path", "/a"), Attached("workers", "0")}
=============================================================================
