-------------------------- MODULE MCTerminalAudit --------------------------
(* TerminalAudit on small instances.                                       *)
EXTENDS TerminalAudit

CONSTANTS t1, t2

\* t1's writes tell whether the record may have arrived; t2's do not.
MCSinkErrors ==
    [t \in {t1, t2} |->
        IF t = t1 THEN {"ConnectError", "WriteTimeout", "ReadTimeout", "RemoteProtocolError"}
                  ELSE {"ConnectError", "status", "ReadTimeout", "ReadError"}]

=============================================================================
