\* Two names, so that a file can have two, be renamed, or lose one of them.
\* Two inodes and two vnodes: both run out, and an inode or a vnode is used
\* again for another file.  Three threads: one reclaims a vnode that another
\* picks up while the third removes the file or closes it.  A vnode lost by an
\* I/O error counts as two of them.  Sizes: empty or not.
SPECIFICATION Spec
CONSTANTS
    t1 = t1
    t2 = t2
    t3 = t3
    n1 = n1
    n2 = n2
    Thread = {t1, t2, t3}
    Name = {n1, n2}
    NInodes = 2
    NVnodes = 2
    MaxSize = 1
    NULL = NULL
    MaxBusy = 3
SYMMETRY Alike
CONSTRAINT FewBusy
INVARIANTS VnodesInv LinksExact
PROPERTY ImplementsFiles
