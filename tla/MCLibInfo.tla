----------------------------- MODULE MCLibInfo -----------------------------
(* Instances of LibInfo for TLC: sets of calls an application may make. *)
EXTENDS LibInfo

\* An application that reads and writes, with and without transactions, and
\* gets a transaction's answers in a callback.
ReadsAndWrites ==
  {"info_read", "info_exists", "info_readv", "info_write", "info_writev",
   "info_tx_begin", "info_tx_READ", "info_tx_WRITE", "info_tx_commit",
   "info_recv1", "info_close"}

\* "*"
AllOnly == {Keys}

\* What its callback calls, without asking for more answers.
SendsOnly == {"info_cb_UNSUB", "info_write", "info_cb_close"}

=============================================================================
