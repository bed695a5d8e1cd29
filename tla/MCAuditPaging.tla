---------------------------- MODULE MCAuditPaging ----------------------------
EXTENDS AuditPaging, TLC
=============================================================================
