---------------------------- MODULE MCMailImport ----------------------------
(* Small instances of MailImport for TLC.                                  *)
EXTENDS MailImport, TLC

CONSTANTS m1, m2, u1, s1, s2, t1, t2

(* What the papers below are made of: a name, the stamp, the bytes. *)
Doc(names, stamped, readable, bytes) ==
  [names |-> names, stamped |-> stamped, readable |-> readable, bytes |-> bytes,
   number |-> 1]

Ask(action, paper) == [action |-> action, paper |-> paper]

OneTransport == Doc(<<t1>>, FALSE, TRUE, 1)
OtherTransport == Doc(<<t2>>, FALSE, TRUE, 5)
BothTransports == Doc(<<t1, t2>>, FALSE, TRUE, 2)
OneTwice == Doc(<<t1, t1>>, FALSE, TRUE, 4)
Unreadable == Doc(<<t1>>, FALSE, FALSE, 3)

AskedTogether(mails, upload) ==
  {(m1 :> mail) @@ (u1 :> upload) : mail \in mails}

(* Orders, revisions, cancellations and confirmations of one transport or  *)
(* two; the same bytes may come twice, and two confirmations of different  *)
(* transports may have the same number.                                    *)
MCAsked ==
  AskedTogether({Ask("NEW", OneTransport), Ask("UPDATE", BothTransports),
                 Ask("CANCEL", BothTransports), Ask("NEW", Unreadable),
                 Ask("NEW", OneTwice), Ask("UPDATE", OneTwice),
                 Ask("NONE", OneTransport)},
                Ask("NEW", OneTransport))
  \cup AskedTogether({Ask("COST", OneTransport), Ask("COST", OtherTransport)},
                      Ask("COST", OneTransport))
  \cup AskedTogether({Ask("NEW", BothTransports)}, Ask("NEW", Unreadable))
=============================================================================
