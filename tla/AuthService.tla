----------------------------- MODULE AuthService -----------------------------
(***************************************************************************)
(* What the authentication service promises to the XMPP or mail server     *)
(* that asks it (doc/Protocol.md of the repository): a yes is given only   *)
(* to a signed token or to a password that the cloud accepted for this     *)
(* user at some time, and a no to the user's current password only if the  *)
(* cloud could not be reached for this request.  A request may be dropped. *)
(*                                                                         *)
(* Nothing here says how, or that there is a cache.                        *)
(***************************************************************************)
EXTENDS Naturals

CONSTANTS Clients, Users, MaxPassword,
          Credentials,  \* numbers of passwords and of tokens
          Nothing       \* no request is being served

VARIABLES cloudPw,      \* the password of each user
          verified,     \* the <<user, password>> pairs the cloud has accepted
          asked,        \* the request of each client: user, kind and credential
          outage,       \* the cloud could not be reached for the request
          reply         \* what the client has got

svcVars == <<cloudPw, verified, asked, outage, reply>>

SvcInit ==
    /\ cloudPw = [u \in Users |-> 0]
    /\ verified = {}
    /\ asked = [c \in Clients |-> Nothing]
    /\ outage = [c \in Clients |-> FALSE]
    /\ reply = [c \in Clients |-> "none"]

Pair(c) == <<asked[c].user, asked[c].n>>

Ask(c) ==
    /\ reply[c] # "awaited"
    /\ reply' = [reply EXCEPT ![c] = "awaited"]
    /\ \E u \in Users, kind \in {"password", "token"}, n \in Credentials :
          asked' = [asked EXCEPT ![c] = [user |-> u, kind |-> kind, n |-> n]]
    /\ UNCHANGED <<cloudPw, verified, outage>>

Verify(c) ==
    /\ reply[c] = "awaited"
    /\ asked[c].kind = "password" /\ asked[c].n = cloudPw[asked[c].user]
    /\ verified' = verified \cup {Pair(c)}
    /\ UNCHANGED <<cloudPw, asked, outage, reply>>

Unreachable(c) ==
    /\ reply[c] = "awaited"
    /\ outage' = [outage EXCEPT ![c] = TRUE]
    /\ UNCHANGED <<cloudPw, verified, asked, reply>>

\* The answer ends the request.
Reply(c, answer) ==
    /\ reply' = [reply EXCEPT ![c] = answer]
    /\ asked' = [asked EXCEPT ![c] = Nothing]
    /\ outage' = [outage EXCEPT ![c] = FALSE]
    /\ UNCHANGED <<cloudPw, verified>>

Yes(c) ==
    /\ reply[c] = "awaited"
    /\ asked[c].kind = "token" \/ Pair(c) \in verified
    /\ Reply(c, "yes")

No(c) ==
    /\ reply[c] = "awaited"
    /\ \/ outage[c]
       \/ asked[c].kind = "token"
       \/ asked[c].n # cloudPw[asked[c].user]
    /\ Reply(c, "no")

\* One failure drops the requests of a set of clients.
Drop(S) ==
    /\ \A c \in S : reply[c] = "awaited"
    /\ reply' = [c \in Clients |-> IF c \in S THEN "dropped" ELSE reply[c]]
    /\ asked' = [c \in Clients |-> IF c \in S THEN Nothing ELSE asked[c]]
    /\ outage' = [c \in Clients |-> outage[c] /\ c \notin S]
    /\ UNCHANGED <<cloudPw, verified>>

Change(u) ==
    /\ cloudPw[u] < MaxPassword
    /\ cloudPw' = [cloudPw EXCEPT ![u] = @ + 1]
    /\ UNCHANGED <<verified, asked, outage, reply>>

SvcNext ==
    \/ \E c \in Clients :
          Ask(c) \/ Verify(c) \/ Unreachable(c) \/ Yes(c) \/ No(c)
    \/ \E S \in SUBSET Clients : Drop(S)
    \/ \E u \in Users : Change(u)

SvcSpec == SvcInit /\ [][SvcNext]_svcVars
=============================================================================
