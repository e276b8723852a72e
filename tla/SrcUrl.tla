------------------------------- MODULE SrcUrl -------------------------------
(***************************************************************************)
(* Domain.create_src_url: the public URL of an app.  A name is a sequence  *)
(* of signs, of which only the hyphen and the dot matter: the hyphen joins *)
(* names into a label, the dot joins the label with the domain.            *)
(***************************************************************************)
EXTENDS Sequences, Naturals

CONSTANT Letters    \* the other signs

DomainType == {"STANDARD", "EPHEMERAL", "USER"}

Sign == Letters \cup {"-", "."}

Name == Seq(Sign)

\* Mutant: the names are joined without a hyphen.
JoinedBare(front, back) == front \o back

Joined(front, back) == front \o <<"-">> \o back

\* stamp is what uuid4 returns.
Label(type, user, app, stamp) ==
    CASE type = "USER"      -> Joined(user, app)
      [] type = "EPHEMERAL" -> Joined(app, stamp)
      [] type = "STANDARD"  -> app

\* With bind_subdomain the label is part of the host, else of the path.
SrcUrl(value, label, bind) ==
    IF bind THEN [netloc |-> label \o <<".">> \o value, path |-> <<"/">>]
            ELSE [netloc |-> value, path |-> label]

Free(name, sign) == \A i \in 1..Len(name) : name[i] # sign
=============================================================================
