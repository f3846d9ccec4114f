------------------------------ MODULE HostKeys ------------------------------
(***************************************************************************)
(* Which SSH host keys are trusted: the file of pinned keys (TofuStore of  *)
(* tunnel/host_key.rs) and the dialogue that fills it (review_host_key and *)
(* trust_host_key of ffi/ssh.rs).                                          *)
(*                                                                         *)
(* Every review, every trust and every connect opens a store of its own    *)
(* from the file, so nothing but the file itself is shared, and it is      *)
(* written by truncating it and writing it whole.  What a host offers can  *)
(* change from one connection to the next.  A port belongs to its host.    *)
(***************************************************************************)
EXTENDS Integers

CONSTANTS
    Hosts, Keys,
    Algorithm,     \* the algorithm of a key
    Windows,       \* where a user reviews a key and trusts it
    System,        \* the pairs of host and key in the user's own known_hosts
    MaxReviews,    \* bound: reviews in all
    MaxMishaps     \* bound: crashes, and writes that fail

NoKey == "none"
NoHost == "nowhere"

ASSUME HostKeysAssumption ==
    /\ Hosts # {} /\ System \subseteq Hosts \X Keys
    /\ NoKey \notin Keys /\ "garbled" \notin Keys
    /\ MaxReviews \in Nat /\ MaxMishaps \in Nat

Empty == [h \in Hosts |-> NoKey]
Garbled == [h \in Hosts |-> "garbled"]      \* a file that cannot be parsed
Pins == [Hosts -> Keys \cup {NoKey}]

VARIABLES
    file,       \* the known_hosts of datagrep
    pendingKeys, \* CoreInner.pending_host_keys
    window,     \* the windows
    link,       \* one SSH session: where it is, and the pins its connector read
    reviews,    \* how many there have been
    mishaps,
    accepted,   \* history: what a user was shown and then trusted
    granted,    \* history: the pins trust_host_key has returned Ok for
    disturbed   \* history: two trusts overlapped, or one was cut short while it wrote

hostKeyVars == <<file, pendingKeys, window, link, reviews, mishaps, accepted, granted, disturbed>>

Closed == [at |-> "idle", host |-> NoHost, key |-> NoKey, store |-> Empty]
Down == [at |-> "down", host |-> NoHost, key |-> NoKey, store |-> Empty]

HostKeysInit ==
    /\ file = Empty
    /\ pendingKeys = Empty
    /\ window = [w \in Windows |-> Closed]
    /\ link = Down
    /\ reviews = 0 /\ mishaps = 0
    /\ accepted = {} /\ granted = {} /\ disturbed = FALSE

\* What a lookup reads of the user's own file, which may be missing or unreadable.
Readings == {System, {}}

\* check_known_hosts_path: a key of the host conflicts with another of its algorithm only.
Conflicts(listed, h, k) ==
    \E j \in Keys \ {k} : <<h, j>> \in listed /\ Algorithm[j] = Algorithm[k]

\* TofuStore::status: a pin decides; without one the user's own file does.
Trusted(store, listed, h, k) ==
    \/ store[h] = k
    \/ store[h] = NoKey /\ <<h, k>> \in listed /\ ~Conflicts(listed, h, k)
Differs(store, listed, h, k) ==
    \/ store[h] \notin {k, NoKey}
    \/ store[h] = NoKey /\ Conflicts(listed, h, k)
Unknown(store, listed, h, k) == ~Trusted(store, listed, h, k) /\ ~Differs(store, listed, h, k)

Idle(w) == window' = [window EXCEPT ![w] = Closed]
WindowAt(w, at) == window' = [window EXCEPT ![w].at = at]

----------------------------------------------------------------------------
(* review_host_key *)

\* probe_host_key: the key the host offers now.
Probe(w, h, k) ==
    /\ window[w].at = "idle" /\ reviews < MaxReviews /\ reviews' = reviews + 1
    /\ window' = [window EXCEPT ![w] = [at |-> "probed", host |-> h, key |-> k, store |-> Empty]]
    /\ UNCHANGED <<file, pendingKeys, link, mishaps, accepted, granted, disturbed>>

\* The fingerprint is shown and the key remembered under its host.
Show(w) ==
    /\ window[w].at = "probed"
    /\ \/ /\ file # Garbled
          /\ pendingKeys' = [pendingKeys EXCEPT ![window[w].host] = window[w].key]
          /\ WindowAt(w, "shown")
       \/ file = Garbled /\ Idle(w) /\ UNCHANGED pendingKeys
    /\ UNCHANGED <<reviews, file, link, mishaps, accepted, granted, disturbed>>

Decline(w) ==
    /\ window[w].at = "shown"
    /\ Idle(w)
    /\ UNCHANGED <<reviews, file, pendingKeys, link, mishaps, accepted, granted, disturbed>>

----------------------------------------------------------------------------
(* trust_host_key *)

Trusting(w) == window[w].at \in {"trusting", "pin", "writing", "clear"}
Chosen(w) == <<window[w].host, window[w].key>>

\* Fault: the key that is remembered now is taken for the one that was shown.
TrustRemembered(w) ==
    LET h == window[w].host
    IN  /\ window[w].at = "shown"
        /\ accepted' = accepted \cup {<<h, window[w].key>>}
        /\ \/ /\ pendingKeys[h] # NoKey
              /\ window' = [window EXCEPT ![w].at = "trusting", ![w].key = pendingKeys[h]]
           \/ pendingKeys[h] = NoKey /\ Idle(w)
        /\ disturbed' = (disturbed \/ \E v \in Windows : Trusting(v))
        /\ UNCHANGED <<reviews, file, pendingKeys, link, mishaps, granted>>

\* The key is trusted only if the one remembered has the fingerprint that was shown.
Trust(w) ==
    LET h == window[w].host
    IN  /\ window[w].at = "shown"
        /\ accepted' = accepted \cup {<<h, window[w].key>>}
        /\ \/ pendingKeys[h] = window[w].key /\ WindowAt(w, "trusting")
           \/ pendingKeys[h] # window[w].key /\ Idle(w)
        /\ disturbed' = (disturbed \/ \E v \in Windows : Trusting(v))
        /\ UNCHANGED <<reviews, file, pendingKeys, link, mishaps, granted>>

\* The files are read and the key looked up in them; a key that differs is refused.  One
\* that the system trusts needs no pin.
OpenStore(w) ==
    LET h == window[w].host   k == window[w].key
        Opened(at) == window' = [window EXCEPT ![w].at = at, ![w].store = file]
    IN  /\ window[w].at = "trusting"
        /\ \/ /\ file # Garbled
              /\ \E listed \in Readings :
                    \/ Trusted(file, listed, h, k) /\ Opened("clear")
                    \/ Unknown(file, listed, h, k) /\ Opened("pin")
                    \/ Differs(file, listed, h, k) /\ Idle(w)
           \/ file = Garbled /\ Idle(w)
        /\ UNCHANGED <<reviews, file, pendingKeys, link, mishaps, accepted, granted, disturbed>>

\* pin: the entry is added to this store, and the store is written over the file.
Truncate(w) ==
    /\ window[w].at = "pin"
    /\ file' = Empty
    /\ window' = [window EXCEPT ![w].at = "writing", ![w].store[window[w].host] = window[w].key]
    /\ UNCHANGED <<reviews, pendingKeys, link, mishaps, accepted, granted, disturbed>>

\* What somebody else has written meanwhile shows behind the end of a shorter text.
Write(w) ==
    /\ window[w].at = "writing"
    /\ \/ file' = window[w].store
       \/ file # Empty /\ file' = Garbled
    /\ WindowAt(w, "clear")
    /\ UNCHANGED <<reviews, pendingKeys, link, mishaps, accepted, granted, disturbed>>

WriteFails(w) ==
    /\ window[w].at = "writing" /\ mishaps < MaxMishaps
    /\ mishaps' = mishaps + 1 /\ disturbed' = TRUE
    /\ Idle(w)
    /\ UNCHANGED <<reviews, file, pendingKeys, link, accepted, granted>>

Clear(w) ==
    /\ window[w].at = "clear"
    /\ pendingKeys' = [pendingKeys EXCEPT ![window[w].host] = NoKey]
    /\ granted' = granted \cup {p \in {Chosen(w)} : window[w].store[p[1]] = p[2]}
    /\ Idle(w)
    /\ UNCHANGED <<reviews, file, link, mishaps, accepted, disturbed>>

----------------------------------------------------------------------------
\* The application ends at any moment and is started again; the file stays as it is.
Crash ==
    /\ mishaps < MaxMishaps /\ mishaps' = mishaps + 1
    /\ window' = [w \in Windows |-> Closed]
    /\ pendingKeys' = Empty
    /\ link' = Down
    /\ disturbed' = (disturbed \/ \E w \in Windows : window[w].at = "writing")
    /\ UNCHANGED <<reviews, file, accepted, granted>>

\* connector: a store is opened, then the host offers a key and check looks it up.
LinkOpens(h) ==
    /\ link.at = "down" /\ file # Garbled
    /\ link' = [Down EXCEPT !.at = "dialling", !.host = h, !.store = file]
    /\ UNCHANGED <<reviews, file, pendingKeys, window, mishaps, accepted, granted, disturbed>>

LinkChecks(k) ==
    /\ link.at = "dialling"
    /\ \E listed \in Readings :
        link' = IF Trusted(link.store, listed, link.host, k)
                  THEN [link EXCEPT !.at = "up", !.key = k] ELSE Down
    /\ UNCHANGED <<reviews, file, pendingKeys, window, mishaps, accepted, granted, disturbed>>

LinkCloses ==
    /\ link.at = "up"
    /\ link' = Down
    /\ UNCHANGED <<reviews, file, pendingKeys, window, mishaps, accepted, granted, disturbed>>

TrustHostKey(w) == Trust(w) \/ OpenStore(w) \/ Truncate(w) \/ Write(w) \/ WriteFails(w) \/ Clear(w)

HostKeysNext ==
    \/ \E w \in Windows :
        \/ \E h \in Hosts, k \in Keys : Probe(w, h, k)
        \/ Show(w) \/ Decline(w) \/ TrustHostKey(w)
    \/ Crash
    \/ \E h \in Hosts : LinkOpens(h)
    \/ \E k \in Keys : LinkChecks(k)
    \/ LinkCloses

HostKeysSpec == HostKeysInit /\ [][HostKeysNext]_hostKeyVars

----------------------------------------------------------------------------
Places == {"idle", "probed", "shown", "trusting", "pin", "writing", "clear"}

HostKeysTypeOK ==
    /\ file \in Pins \cup {Garbled} /\ pendingKeys \in Pins
    /\ \A w \in Windows :
        /\ window[w].at \in Places /\ window[w].store \in Pins
        /\ window[w].at # "idle" => window[w].host \in Hosts /\ window[w].key \in Keys
    /\ link.at \in {"down", "dialling", "up"} /\ link.store \in Pins
    /\ reviews \in 0 .. MaxReviews /\ mishaps \in 0 .. MaxMishaps
    /\ accepted \subseteq Hosts \X Keys /\ granted \subseteq accepted

\* Nothing is trusted that its user has not been shown and has not accepted, or has in
\* known_hosts: no pin in the file or in a store about to be written, no session.  Two
\* windows may review one host while it changes its key (ssh.rs:497).
Informed(store) == \A h \in Hosts : store[h] = NoKey \/ <<h, store[h]>> \in accepted
TrustIsInformed ==
    /\ file # Garbled => Informed(file)
    /\ \A w \in Windows : window[w].at = "writing" => Informed(window[w].store)
    /\ link.at = "up" => <<link.host, link.key>> \in accepted \cup System

\* What was pinned stays pinned, and so no other key of that host ever is, whatever the
\* user's own file says and whether or not it can be read, as long as trusts follow each
\* other and none is cut short (host_key.rs:168).  What only that file vouches for is
\* not pinned, and a key of another algorithm may be.
QuietPinsStay ==
    (~disturbed /\ \A w \in Windows : window[w].at # "writing") =>
        /\ file # Garbled
        /\ \A p \in granted : file[p[1]] = p[2]

\* The pins are what their users wanted, neither more nor, on quiet days, less.
PinsAreTheUsers == TrustIsInformed /\ QuietPinsStay
=============================================================================
