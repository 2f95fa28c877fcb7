\* Three processes: one may fork while another closes and the third reads.
\* Two descriptors: a table can be full, and dup2 can fill it with one file.
\* At most two of them are in the middle of a call, the third between two calls
\* or a child being made: that is one that disturbs and one that is disturbed.
\* A seekable vnode and one that is not.
SPECIFICATION Spec
CONSTANTS
    p1 = p1
    p2 = p2
    p3 = p3
    f1 = f1
    f2 = f2
    disk = disk
    con = con
    Proc = {p1, p2, p3}
    File = {f1, f2}
    Vnode = {disk, con}
    Seekable = {disk}
    AccMode = {"O_WRONLY"}
    OPEN_MAX = 2
    MaxPos = 1
    NULL = NULL
    MaxCalls = 2
SYMMETRY Alike
CONSTRAINT FewCalls
INVARIANTS OpenFilesInv RefcountExact TransfersAtomic
PROPERTY ImplementsSharedFiles
