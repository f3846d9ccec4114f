------------------------------ MODULE MCPgPool ------------------------------
EXTENDS PgPool
=============================================================================
