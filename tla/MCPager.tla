------------------------------ MODULE MCPager ------------------------------
EXTENDS Pager
=============================================================================
