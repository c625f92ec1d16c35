--------------------------- MODULE MCToolResultCache ---------------------------
EXTENDS ToolResultCache
CONSTANTS cwd, other, a, b

\* Two files read by absolute paths, and a web page.
AbsoluteCalls ==
    {[tool |-> "read_text_file", path |-> <<cwd, a>>],
     [tool |-> "read_text_file", path |-> <<cwd, b>>],
     [tool |-> "get_file_info", path |-> <<cwd, a>>],
     [tool |-> "fetch_url", path |-> <<cwd, b>>]}

\* A file below the selected directory, named relative to it.
RelativeCalls == {[tool |-> "read_text_file", path |-> a]}

\* Relative and absolute reads of files of both directories, a web page.
MixedCalls ==
    {[tool |-> "read_text_file", path |-> a],
     [tool |-> "read_text_file", path |-> <<cwd, a>>],
     [tool |-> "fetch_url", path |-> <<other, a>>]}

\* A search below one file's directory.
SearchCalls == {[tool |-> "grep_codebase", path |-> a]}
=============================================================================
