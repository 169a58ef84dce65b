------------------------------ MODULE MCAddress -------------------------------
(***************************************************************************)
(* PeerAddress over a set of texts: addresses as they are entered, and     *)
(* hosts as they arrive in Peers messages.  One state per text.            *)
(***************************************************************************)
EXTENDS PeerAddress

CONSTANT
    Addresses    \* the texts

ASSUME AddressesAssumption == Addresses \subseteq Seq(Token)

VARIABLE
    address      \* the text at hand

\* Texts of up to four tokens: a value for Addresses.
ShortTexts == {t \in SeqOf(Token, 4) : IsText(t)}

AddressInit == address \in Addresses

AddressSpec == AddressInit /\ [][UNCHANGED address]_address

-----------------------------------------------------------------------------
(* Properties *)

\* peerlist.rs:18-38: an address that Peer::try_from accepts is shown as a text
\* that is accepted as the same peer, and is read back from its line of peers.csv.
AcceptedIsDurable ==
    Accepted(address) =>
        LET p == try_from(address)
        IN  try_from(to_string(p)) = p /\ load_from_disk(Line(p)) = {p}

\* What PeerBook assumes of a line (Reread), for every host a Peers message can
\* carry: it is read back as the peer it was written for unless the host has blanks
\* around it or holds a comma or a newline (peers.rs:25, 36-40).
PlainHostsReadBack ==
    load_from_disk(Line(Peer(address, 80))) = {Peer(address, 80)}
        <=> address = trim(address) /\ \A i \in DOMAIN address : address[i] \notin {"comma", "newline"}
=============================================================================
