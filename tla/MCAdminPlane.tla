---------------------------- MODULE MCAdminPlane ----------------------------
\* Instances of AdminPlane; the configurations name the admin connections.
EXTENDS AdminPlane
=============================================================================
